---- MODULE Spec2Model ----
(***************************************************************************)
(* Model of the bank-statement extraction engine of pdf-csv.               *)
(*                                                                         *)
(*   src/python-backend/main.py    PDFBankStatementProcessor (the engine   *)
(*                                 with the "universal" table/text paths)  *)
(*   src/backend/pdf_processor.py  PDFBankStatementProcessor (the older    *)
(*                                 pandas based engine)                    *)
(*                                                                         *)
(* Text is modelled as a sequence of one-character strings, so that the    *)
(* string operations of the source (strip, lower, substring search, the    *)
(* regular expressions, split, zfill, float and int parsing) are computed  *)
(* character by character.  An amount is an integer number of hundredths   *)
(* (1250.50 is 125050); the input pools hold amounts of at most two        *)
(* decimals, for which this is exact.  An optional value (Python None) is  *)
(* a sequence of length 0, a present value v is <<v>>.                     *)
(***************************************************************************)
EXTENDS Integers, Sequences, FiniteSets, TLC

VARIABLES
    input,          \* unit harness: the argument handed to the function under check
    output,         \* unit harness: <<>> before the call, <<[op, val]>> after it
    pc,             \* process_pdf: the step the call is at
    pdf,            \* process_pdf: the document as the decoding library presents it
    transactions,   \* process_pdf: the local variable transactions
    full_text,      \* process_pdf: the local variable full_text
    result,         \* process_pdf: <<>> while running, <<the returned dict>> after
    backend,        \* service: "main" (main.py), "server" (server.py), "none" outside it
    jobs_storage,   \* service: the job store, job id -> None or the job
    results_storage,\* service: the result store, job id -> None or the result
    task,           \* service: job id -> how far the handling of its upload has come
    response        \* service: <<>> or <<the last request with its answer>>

unitVars == <<input, output>>

pipeVars == <<pc, pdf, transactions, full_text, result>>

serviceVars == <<backend, jobs_storage, results_storage, task, response>>

vars == <<input, output, pc, pdf, transactions, full_text, result,
          backend, jobs_storage, results_storage, task, response>>

(***************************************************************************)
(* Python values                                                           *)
(***************************************************************************)
None == <<>>

Some(v) == <<v>>

IsNone(o) == o = <<>>

\* the value of a present optional
Val(o) == o[1]

(***************************************************************************)
(* Characters and str methods                                              *)
(***************************************************************************)
Digits == {"0","1","2","3","4","5","6","7","8","9"}

UpperChars == <<"A","B","C","D","E","F","G","H","I","J","K","L","M",
                "N","O","P","Q","R","S","T","U","V","W","X","Y","Z">>

LowerChars == <<"a","b","c","d","e","f","g","h","i","j","k","l","m",
                "n","o","p","q","r","s","t","u","v","w","x","y","z">>

IsDigit(c) == c \in Digits

IsUpper(c) == \E i \in 1..26 : UpperChars[i] = c

IsAlpha(c) == \E i \in 1..26 : UpperChars[i] = c \/ LowerChars[i] = c

\* \s of the regular expressions, and the characters str.strip() removes
IsSpace(c) == c \in {" ", "\t", "\n"}

LowerChar(c) == IF IsUpper(c) THEN LowerChars[CHOOSE i \in 1..26 : UpperChars[i] = c] ELSE c

\* str.lower()
Lower(s) == [i \in 1..Len(s) |-> LowerChar(s[i])]

\* s[a:b] with 1-based inclusive positions; empty when a > b
Slice(s, a, b) == IF a > b THEN <<>> ELSE SubSeq(s, a, b)

\* str.strip()
Strip(s) ==
    LET keep == {i \in 1..Len(s) : ~IsSpace(s[i])}
    IN  IF keep = {} THEN <<>>
        ELSE LET lo == CHOOSE i \in keep : \A j \in keep : i <= j
                 hi == CHOOSE i \in keep : \A j \in keep : j <= i
             IN  SubSeq(s, lo, hi)

\* s.startswith(p)
StartsWith(s, p) == Len(p) <= Len(s) /\ SubSeq(s, 1, Len(p)) = p

\* s.endswith(p)
EndsWith(s, p) == Len(p) <= Len(s) /\ SubSeq(s, Len(s) - Len(p) + 1, Len(s)) = p

\* p occurs in s at position i
OccursAt(s, p, i) == i + Len(p) - 1 <= Len(s) /\ SubSeq(s, i, i + Len(p) - 1) = p

\* the Python expression  p in s
Contains(s, p) == \E i \in 1..(Len(s) + 1) : OccursAt(s, p, i)

\* s.isdigit()
IsDigitStr(s) == Len(s) > 0 /\ \A i \in 1..Len(s) : IsDigit(s[i])

\* s.count(c) for a single character c
Count(s, c) == Cardinality({i \in 1..Len(s) : s[i] = c})

\* every character of s[a..b] is a digit (true of an empty range)
AllDigits(s, a, b) == b <= Len(s) /\ \A i \in a..b : IsDigit(s[i])

\* every character of s[a..b] is a letter
AllAlpha(s, a, b) == b <= Len(s) /\ \A i \in a..b : IsAlpha(s[i])

\* every character of s[a..b] is white space
AllSpace(s, a, b) == b <= Len(s) /\ \A i \in a..b : IsSpace(s[i])

\* s[i] is one of the characters of the set cs
CharIn(s, i, cs) == i >= 1 /\ i <= Len(s) /\ s[i] \in cs

\* re.sub(r'[...]', '', s): drop every character of the set cs
RECURSIVE RemoveChars(_, _)
RemoveChars(s, cs) ==
    IF s = <<>> THEN <<>>
    ELSE IF Head(s) \in cs THEN RemoveChars(Tail(s), cs)
         ELSE <<Head(s)>> \o RemoveChars(Tail(s), cs)

\* s.split(c) for a single character c: the fields between the occurrences of c
RECURSIVE SplitOn(_, _)
SplitOn(s, c) ==
    LET hits == {i \in 1..Len(s) : s[i] = c}
    IN  IF hits = {} THEN <<s>>
        ELSE LET k == CHOOSE i \in hits : \A j \in hits : i <= j
             IN  <<Slice(s, 1, k - 1)>> \o SplitOn(Slice(s, k + 1, Len(s)), c)

\* s.zfill(2)
ZFill2(s) == IF Len(s) >= 2 THEN s ELSE IF Len(s) = 1 THEN <<"0">> \o s ELSE <<"0","0">>

DigitVal(c) == CHOOSE n \in 0..9 : <<"0","1","2","3","4","5","6","7","8","9">>[n + 1] = c

DigitChar(n) == <<"0","1","2","3","4","5","6","7","8","9">>[n + 1]

\* the number a string of digits denotes (0 for the empty string)
RECURSIVE DigitsToNat(_)
DigitsToNat(s) ==
    IF s = <<>> THEN 0
    ELSE 10 * DigitsToNat(SubSeq(s, 1, Len(s) - 1)) + DigitVal(s[Len(s)])

\* str(n) for a natural number n
RECURSIVE NatToStr(_)
NatToStr(n) == IF n < 10 THEN <<DigitChar(n)>> ELSE NatToStr(n \div 10) \o <<DigitChar(n % 10)>>

(***************************************************************************)
(* FieldNormalizer: token predicates (main.py)                             *)
(***************************************************************************)
DateSeps == {"-", "/"}

\* r'\d{1,2}[-/]\d{1,2}[-/]\d{2,4}' matching at position p
DateNumericAt(t, p) ==
    \E a \in 1..2, b \in 1..2 :
        /\ AllDigits(t, p, p + a - 1)
        /\ CharIn(t, p + a, DateSeps)
        /\ AllDigits(t, p + a + 1, p + a + b)
        /\ CharIn(t, p + a + b + 1, DateSeps)
        /\ AllDigits(t, p + a + b + 2, p + a + b + 3)

\* r'\d{1,2}[-/][A-Za-z]{3}[-/]\d{2,4}' matching at position p
DateMonthNameAt(t, p) ==
    \E a \in 1..2 :
        /\ AllDigits(t, p, p + a - 1)
        /\ CharIn(t, p + a, DateSeps)
        /\ AllAlpha(t, p + a + 1, p + a + 3)
        /\ CharIn(t, p + a + 4, DateSeps)
        /\ AllDigits(t, p + a + 5, p + a + 6)

\* r'\d{2,4}[-/]\d{1,2}[-/]\d{1,2}' matching at position p
DateYearFirstAt(t, p) ==
    \E a \in 2..4, b \in 1..2 :
        /\ AllDigits(t, p, p + a - 1)
        /\ CharIn(t, p + a, DateSeps)
        /\ AllDigits(t, p + a + 1, p + a + b)
        /\ CharIn(t, p + a + b + 1, DateSeps)
        /\ AllDigits(t, p + a + b + 2, p + a + b + 2)

\* the length of the run of white space that starts at position i
SpaceRun(t, i) ==
    LET rest == {j \in i..Len(t) : ~IsSpace(t[j])}
    IN  IF i > Len(t) THEN 0
        ELSE IF rest = {} THEN Len(t) - i + 1
        ELSE (CHOOSE j \in rest : \A k \in rest : j <= k) - i

\* r'\d{1,2}\s+[A-Za-z]{3}\s+\d{2,4}' matching at position p (a run \s+ that a
\* letter or a digit follows is the whole run of white space)
DateSpacedAt(t, p) ==
    \E a \in 1..2 :
        LET w1 == SpaceRun(t, p + a)
            w2 == SpaceRun(t, p + a + w1 + 3)
        IN  /\ AllDigits(t, p, p + a - 1)
            /\ w1 >= 1
            /\ AllAlpha(t, p + a + w1, p + a + w1 + 2)
            /\ w2 >= 1
            /\ AllDigits(t, p + a + w1 + w2 + 3, p + a + w1 + w2 + 4)

\* r'\d{1,2}-[A-Za-z]{3}-\d{2,4}' matching at position p
DateDashedNameAt(t, p) ==
    \E a \in 1..2 :
        /\ AllDigits(t, p, p + a - 1)
        /\ CharIn(t, p + a, {"-"})
        /\ AllAlpha(t, p + a + 1, p + a + 3)
        /\ CharIn(t, p + a + 4, {"-"})
        /\ AllDigits(t, p + a + 5, p + a + 6)

\* one of the five date_patterns matches at position p
DatePatternAt(t, p) ==
    \/ DateNumericAt(t, p)
    \/ DateMonthNameAt(t, p)
    \/ DateYearFirstAt(t, p)
    \/ DateSpacedAt(t, p)
    \/ DateDashedNameAt(t, p)

\* _is_date: re.match (a match at the start) of the stripped text
_is_date(text) == DatePatternAt(Strip(text), 1)

\* _contains_date: re.search (a match anywhere) in the text as it is
_contains_date(text) == \E p \in 1..Len(text) : DatePatternAt(text, p)

\* r'\d{1,2}\s+[A-Za-z]{3},?\s+\d{4}' matching at position p
FlexDayMonthAt(t, p) ==
    \E a \in 1..2 :
        LET w1 == SpaceRun(t, p + a)
            c  == IF CharIn(t, p + a + w1 + 3, {","}) THEN 1 ELSE 0
            w2 == SpaceRun(t, p + a + w1 + 3 + c)
        IN  /\ AllDigits(t, p, p + a - 1)
            /\ w1 >= 1
            /\ AllAlpha(t, p + a + w1, p + a + w1 + 2)
            /\ w2 >= 1
            /\ AllDigits(t, p + a + w1 + c + w2 + 3, p + a + w1 + c + w2 + 6)

\* r'[A-Za-z]{3}\s+\d{1,2},?\s+\d{4}' matching at position p
FlexMonthDayAt(t, p) ==
    \E b \in 1..2 :
        LET w1 == SpaceRun(t, p + 3)
            c  == IF CharIn(t, p + w1 + b + 3, {","}) THEN 1 ELSE 0
            w2 == SpaceRun(t, p + w1 + b + c + 3)
        IN  /\ AllAlpha(t, p, p + 2)
            /\ w1 >= 1
            /\ AllDigits(t, p + w1 + 3, p + w1 + b + 2)
            /\ w2 >= 1
            /\ AllDigits(t, p + w1 + b + c + w2 + 3, p + w1 + b + c + w2 + 6)

\* r'\d{1,2}\s*[A-Za-z]{3}\s*,?\s*\d{4}' matching at position p
FlexCompactAt(t, p) ==
    \E a \in 1..2 :
        LET w1 == SpaceRun(t, p + a)
            w2 == SpaceRun(t, p + a + w1 + 3)
            c  == IF CharIn(t, p + a + w1 + w2 + 3, {","}) THEN 1 ELSE 0
            w3 == IF c = 1 THEN SpaceRun(t, p + a + w1 + w2 + 4) ELSE 0
        IN  /\ AllDigits(t, p, p + a - 1)
            /\ AllAlpha(t, p + a + w1, p + a + w1 + 2)
            /\ AllDigits(t, p + a + w1 + w2 + c + w3 + 3, p + a + w1 + w2 + c + w3 + 6)

\* _looks_like_date: re.search of the flexible patterns in the stripped text
_looks_like_date(text) ==
    LET t == Strip(text)
    IN  \E p \in 1..Len(t) : FlexDayMonthAt(t, p) \/ FlexMonthDayAt(t, p) \/ FlexCompactAt(t, p)

\* the characters re.sub(r'[RUPEE$,\s]', '', ...) removes; "RUPEE" stands for the
\* one character U+20B9
CurrencyChars == {"RUPEE", "$", ",", " ", "\t", "\n"}

\* r'^\d+\.?\d*$'
SimpleNumber(s) ==
    \E a \in 1..Len(s), d \in 0..1 :
        /\ AllDigits(s, 1, a)
        /\ (d = 1 => CharIn(s, a + 1, {"."}))
        /\ AllDigits(s, a + d + 1, Len(s))

\* r'^\(\d+\.?\d*\)$'
ParenNumber(s) ==
    /\ Len(s) >= 3
    /\ s[1] = "("
    /\ s[Len(s)] = ")"
    /\ SimpleNumber(SubSeq(s, 2, Len(s) - 1))

\* r'^\d{1,3}(,\d{3})*\.?\d*$': the commas are already removed from s, so the
\* group (,\d{3})* matches nothing
GroupedNumber(s) ==
    \E a \in 1..3, d \in 0..1 :
        /\ AllDigits(s, 1, a)
        /\ (d = 1 => CharIn(s, a + 1, {"."}))
        /\ AllDigits(s, a + d + 1, Len(s))

\* r'^\d+\.\d{2}$'
TwoDecimals(s) ==
    /\ Len(s) >= 4
    /\ AllDigits(s, 1, Len(s) - 3)
    /\ s[Len(s) - 2] = "."
    /\ AllDigits(s, Len(s) - 1, Len(s))

\* r'^\d{1,3}(,\d{3})*\.\d{2}$' on text without commas
GroupedTwoDecimals(s) == Len(s) <= 6 /\ TwoDecimals(s)

\* _is_amount
_is_amount(text) ==
    LET t       == Strip(text)
        u       == IF t # <<>> /\ t[1] \in {"+", "-"} THEN Tail(t) ELSE t
        cleaned == RemoveChars(u, CurrencyChars)
    IN  \/ SimpleNumber(cleaned)
        \/ ParenNumber(cleaned)
        \/ GroupedNumber(cleaned)
        \/ TwoDecimals(cleaned)
        \/ GroupedTwoDecimals(cleaned)

\* _contains_amount: re.search(r'\d+[.,]\d{2}|\d{4,}', text)
_contains_amount(text) ==
    \E p \in 1..Len(text) :
        \/ /\ AllDigits(text, p, p)
           /\ CharIn(text, p + 1, {".", ","})
           /\ AllDigits(text, p + 2, p + 3)
        \/ AllDigits(text, p, p + 3)

(***************************************************************************)
(* FieldNormalizer: amounts                                                *)
(***************************************************************************)
\* float(s): None when Python raises ValueError, else the value in hundredths.
\* Covers an optional sign, digits and at most one decimal point; exponents,
\* inf, nan and digit-group underscores are outside the input pools.
PyFloat(s) ==
    LET signed == s # <<>> /\ s[1] \in {"+", "-"}
        body   == IF signed THEN Tail(s) ELSE s
        dots   == {i \in 1..Len(body) : body[i] = "."}
        ok     == /\ Cardinality(dots) <= 1
                  /\ \A i \in 1..Len(body) : IsDigit(body[i]) \/ body[i] = "."
                  /\ \E i \in 1..Len(body) : IsDigit(body[i])
        k      == IF dots = {} THEN Len(body) + 1 ELSE CHOOSE i \in dots : TRUE
        ip     == Slice(body, 1, k - 1)
        fp     == Slice(body, k + 1, Len(body)) \o <<"0", "0">>
        mag    == 100 * DigitsToNat(ip) + DigitsToNat(SubSeq(fp, 1, 2))
    IN  IF ~ok THEN None
        ELSE IF s[1] = "-" THEN Some(0 - mag) ELSE Some(mag)

Abs(n) == IF n < 0 THEN 0 - n ELSE n

\* _clean_amount (main.py): always the magnitude, 0 on a parse failure
_clean_amount(amount_str) ==
    IF amount_str = <<>> THEN 0
    ELSE LET original == Strip(amount_str)
             unplus   == IF StartsWith(original, <<"+">>) THEN Tail(original) ELSE original
             cleaned  == RemoveChars(unplus, CurrencyChars)
             unparen  == IF StartsWith(cleaned, <<"(">>) /\ EndsWith(cleaned, <<")">>)
                         THEN Slice(cleaned, 2, Len(cleaned) - 1)
                         ELSE cleaned
             unminus  == IF StartsWith(unparen, <<"-">>) THEN Tail(unparen) ELSE unparen
             amount   == PyFloat(unminus)
         IN  IF IsNone(amount) THEN 0 ELSE Abs(Val(amount))

\* the characters re.sub(r'[...$,\s]', '', ...) of pdf_processor.py removes: the
\* class holds a mis-encoded rupee sign (three other characters), so the rupee
\* sign itself stays
LegacyCurrencyChars == {"$", ",", " ", "\t", "\n"}

\* clean_amount (pdf_processor.py): [raised, val]; a parenthesized amount is
\* returned negated, and its float() is outside the try block
clean_amount(amount_str) ==
    IF amount_str = <<>> THEN [raised |-> FALSE, val |-> 0]
    ELSE LET cleaned == RemoveChars(Strip(amount_str), LegacyCurrencyChars)
         IN  IF StartsWith(cleaned, <<"(">>) /\ EndsWith(cleaned, <<")">>)
             THEN LET inner == Slice(cleaned, 2, Len(cleaned) - 1)
                  IN  IF inner = <<>> THEN [raised |-> FALSE, val |-> 0]
                      ELSE IF IsNone(PyFloat(inner)) THEN [raised |-> TRUE, val |-> 0]
                      ELSE [raised |-> FALSE, val |-> 0 - Val(PyFloat(inner))]
             ELSE IF cleaned = <<>> \/ IsNone(PyFloat(cleaned))
                  THEN [raised |-> FALSE, val |-> 0]
                  ELSE [raised |-> FALSE, val |-> Val(PyFloat(cleaned))]

(***************************************************************************)
(* FieldNormalizer: dates                                                  *)
(***************************************************************************)
\* month_map of _normalize_date
MonthNames == << <<"j","a","n">>, <<"f","e","b">>, <<"m","a","r">>, <<"a","p","r">>,
                 <<"m","a","y">>, <<"j","u","n">>, <<"j","u","l">>, <<"a","u","g">>,
                 <<"s","e","p">>, <<"o","c","t">>, <<"n","o","v">>, <<"d","e","c">> >>

\* month_map.get(name, '01')
MonthNumber(name) ==
    IF \E m \in 1..12 : MonthNames[m] = name
    THEN ZFill2(NatToStr(CHOOSE m \in 1..12 : MonthNames[m] = name))
    ELSE <<"0","1">>

Dash == <<"-">>

\* (\d{1,2})[-/](\d{1,2})[-/](\d{n}) at the start of s: the lengths <<a, b>> of
\* the first two groups, the third group being the n digits that follow
DayMonthGroups(s, n) ==
    {ab \in (1..2) \X (1..2) :
        /\ AllDigits(s, 1, ab[1])
        /\ CharIn(s, ab[1] + 1, DateSeps)
        /\ AllDigits(s, ab[1] + 2, ab[1] + ab[2] + 1)
        /\ CharIn(s, ab[1] + ab[2] + 2, DateSeps)
        /\ AllDigits(s, ab[1] + ab[2] + 3, ab[1] + ab[2] + n + 2)}

\* the result for the formats 'DD-MM-YYYY' (n = 4) and 'DD-MM-YY' (n = 2)
FormatDayMonthYear(s, n) ==
    LET ab  == CHOOSE x \in DayMonthGroups(s, n) : TRUE
        g1  == SubSeq(s, 1, ab[1])
        g2  == SubSeq(s, ab[1] + 2, ab[1] + ab[2] + 1)
        g3  == SubSeq(s, ab[1] + ab[2] + 3, ab[1] + ab[2] + n + 2)
        yy  == DigitsToNat(g3)
        yr  == IF n = 4 THEN g3
               ELSE NatToStr(IF yy < 50 THEN 2000 + yy ELSE 1900 + yy)
    IN  ZFill2(g1) \o Dash \o ZFill2(g2) \o Dash \o yr

\* (\d{4})[-/](\d{1,2})[-/](\d{1,2}) at the start of s: the length b of the
\* second group; the third group is greedy, two digits when two are there
YearFirstGroups(s) ==
    {b \in 1..2 :
        /\ AllDigits(s, 1, 4)
        /\ CharIn(s, 5, DateSeps)
        /\ AllDigits(s, 6, 5 + b)
        /\ CharIn(s, 6 + b, DateSeps)
        /\ AllDigits(s, 7 + b, 7 + b)}

FormatYearFirst(s) ==
    LET b  == CHOOSE x \in YearFirstGroups(s) : TRUE
        g1 == SubSeq(s, 1, 4)
        g2 == SubSeq(s, 6, 5 + b)
        g3 == IF AllDigits(s, 7 + b, 8 + b) THEN SubSeq(s, 7 + b, 8 + b)
              ELSE SubSeq(s, 7 + b, 7 + b)
    IN  ZFill2(g3) \o Dash \o ZFill2(g2) \o Dash \o g1

\* (\d{1,2})\s+([A-Za-z]{3}),?\s+(\d{4}) at the start of s: the length a of the
\* first group
DayNameGroups(s) ==
    {a \in 1..2 :
        LET w1 == SpaceRun(s, a + 1)
            c  == IF CharIn(s, a + w1 + 4, {","}) THEN 1 ELSE 0
            w2 == SpaceRun(s, a + w1 + c + 4)
        IN  /\ AllDigits(s, 1, a)
            /\ w1 >= 1
            /\ AllAlpha(s, a + w1 + 1, a + w1 + 3)
            /\ w2 >= 1
            /\ AllDigits(s, a + w1 + c + w2 + 4, a + w1 + c + w2 + 7)}

FormatDayName(s) ==
    LET a  == CHOOSE x \in DayNameGroups(s) : TRUE
        w1 == SpaceRun(s, a + 1)
        c  == IF CharIn(s, a + w1 + 4, {","}) THEN 1 ELSE 0
        w2 == SpaceRun(s, a + w1 + c + 4)
        g1 == SubSeq(s, 1, a)
        g2 == SubSeq(s, a + w1 + 1, a + w1 + 3)
        g3 == SubSeq(s, a + w1 + c + w2 + 4, a + w1 + c + w2 + 7)
    IN  ZFill2(g1) \o Dash \o MonthNumber(Lower(g2)) \o Dash \o g3

\* _normalize_date (main.py): the first format whose pattern matches at the
\* start of the stripped text decides; unmatched text is returned as it is
_normalize_date(date_str) ==
    IF date_str = <<>> THEN <<>>
    ELSE LET s == Strip(date_str)
         IN  IF DayMonthGroups(s, 4) # {} THEN FormatDayMonthYear(s, 4)
             ELSE IF DayMonthGroups(s, 2) # {} THEN FormatDayMonthYear(s, 2)
             ELSE IF YearFirstGroups(s) # {} THEN FormatYearFirst(s)
             ELSE IF DayNameGroups(s) # {} THEN FormatDayName(s)
             ELSE s

\* int(s): None when Python raises ValueError (an optional sign and digits;
\* surrounding white space is accepted)
PyInt(s) ==
    LET t      == Strip(s)
        signed == t # <<>> /\ t[1] \in {"+", "-"}
        body   == IF signed THEN Tail(t) ELSE t
    IN  IF ~IsDigitStr(body) THEN None
        ELSE IF t[1] = "-" THEN Some(0 - DigitsToNat(body)) ELSE Some(DigitsToNat(body))

IsLeap(y) == (y % 4 = 0 /\ y % 100 # 0) \/ y % 400 = 0

DaysInMonth(y, m) ==
    IF m = 2 THEN (IF IsLeap(y) THEN 29 ELSE 28)
    ELSE IF m \in {4, 6, 9, 11} THEN 30 ELSE 31

\* datetime(y, m, d) is accepted (no ValueError)
ValidDate(y, m, d) ==
    /\ y >= 1 /\ y <= 9999
    /\ m >= 1 /\ m <= 12
    /\ d >= 1 /\ d <= DaysInMonth(y, m)

\* a datetime as a number that orders as datetimes do
DateOrdinal(y, m, d) == 10000 * y + 100 * m + d

\* datetime.min, 0001-01-01
DateTimeMin == DateOrdinal(1, 1, 1)

\* _parse_date_for_sort: the sort key; datetime.min for an empty date, for a
\* date that does not split into three parts on '-', and for every exception
_parse_date_for_sort(date_str) ==
    IF date_str = <<>> THEN DateTimeMin
    ELSE LET parts == SplitOn(date_str, "-")
         IN  IF Len(parts) # 3 THEN DateTimeMin
             ELSE LET day   == PyInt(parts[1])
                      month == PyInt(parts[2])
                      year  == PyInt(parts[3])
                  IN  IF IsNone(day) \/ IsNone(month) \/ IsNone(year) THEN DateTimeMin
                      ELSE IF ~ValidDate(Val(year), Val(month), Val(day)) THEN DateTimeMin
                      ELSE DateOrdinal(Val(year), Val(month), Val(day))

\* s.split(): the fields between runs of white space
RECURSIVE SplitWs(_)
SplitWs(s) ==
    LET t  == Strip(s)
        sp == {i \in 1..Len(t) : IsSpace(t[i])}
    IN  IF t = <<>> THEN <<>>
        ELSE IF sp = {} THEN <<t>>
        ELSE LET k == CHOOSE i \in sp : \A j \in sp : i <= j
             IN  <<SubSeq(t, 1, k - 1)>> \o SplitWs(Slice(t, k + 1, Len(t)))

\* the formats of normalize_date (pdf_processor.py), in the order they are tried:
\* the separator, the order of the fields, and the directive of month and year
LegacyFormats ==
    << [sep |-> "-", order |-> "dmy", month |-> "m", year |-> "Y"],
       [sep |-> "/", order |-> "dmy", month |-> "m", year |-> "Y"],
       [sep |-> ".", order |-> "dmy", month |-> "m", year |-> "Y"],
       [sep |-> "-", order |-> "dmy", month |-> "m", year |-> "y"],
       [sep |-> "/", order |-> "dmy", month |-> "m", year |-> "y"],
       [sep |-> ".", order |-> "dmy", month |-> "m", year |-> "y"],
       [sep |-> "-", order |-> "dmy", month |-> "b", year |-> "Y"],
       [sep |-> "-", order |-> "dmy", month |-> "b", year |-> "y"],
       [sep |-> " ", order |-> "dmy", month |-> "b", year |-> "Y"],
       [sep |-> " ", order |-> "dmy", month |-> "b", year |-> "y"],
       [sep |-> "-", order |-> "ymd", month |-> "m", year |-> "Y"],
       [sep |-> "/", order |-> "ymd", month |-> "m", year |-> "Y"] >>

\* %d of strptime: 3[0-1]|[1-2]\d|0[1-9]|[1-9]
StrpDay(f) ==
    IF Len(f) \in 1..2 /\ IsDigitStr(f) /\ DigitsToNat(f) \in 1..31
    THEN Some(DigitsToNat(f)) ELSE None

\* %m: 1[0-2]|0[1-9]|[1-9];  %b: an abbreviated month name in any letter case
StrpMonth(f, directive) ==
    IF directive = "m"
    THEN IF Len(f) \in 1..2 /\ IsDigitStr(f) /\ DigitsToNat(f) \in 1..12
         THEN Some(DigitsToNat(f)) ELSE None
    ELSE IF \E m \in 1..12 : MonthNames[m] = Lower(f)
         THEN Some(CHOOSE m \in 1..12 : MonthNames[m] = Lower(f)) ELSE None

\* %Y: \d\d\d\d;  %y: \d\d, 69..99 in the 1900s and 00..68 in the 2000s
StrpYear(f, directive) ==
    IF directive = "Y"
    THEN IF Len(f) = 4 /\ IsDigitStr(f) THEN Some(DigitsToNat(f)) ELSE None
    ELSE IF Len(f) = 2 /\ IsDigitStr(f)
         THEN Some(IF DigitsToNat(f) >= 69 THEN 1900 + DigitsToNat(f) ELSE 2000 + DigitsToNat(f))
         ELSE None

\* datetime.strptime(s, fmt): None for ValueError, else <<year, month, day>>. The
\* whole text has to match, and the date has to exist.
Strptime(s, fmt) ==
    LET fields == IF fmt.sep = " " THEN SplitWs(s) ELSE SplitOn(s, fmt.sep)
    IN  IF Len(fields) # 3 THEN None
        ELSE LET fd == IF fmt.order = "dmy" THEN fields[1] ELSE fields[3]
                 fy == IF fmt.order = "dmy" THEN fields[3] ELSE fields[1]
                 d  == StrpDay(fd)
                 m  == StrpMonth(fields[2], fmt.month)
                 y  == StrpYear(fy, fmt.year)
             IN  IF IsNone(d) \/ IsNone(m) \/ IsNone(y) THEN None
                 ELSE IF ~ValidDate(Val(y), Val(m), Val(d)) THEN None
                 ELSE Some(<<Val(y), Val(m), Val(d)>>)

\* s.zfill(4)
ZFill4(s) == IF Len(s) >= 4 THEN s ELSE SubSeq(<<"0","0","0","0">>, 1, 4 - Len(s)) \o s

\* parsed_date.strftime('%d-%m-%Y'): day and month are zero-padded; whether %Y
\* pads a year below 1000 to four digits depends on the platform's C library
\* (pads = TRUE where it does)
Strftime(ymd, pads) ==
    ZFill2(NatToStr(ymd[3])) \o Dash \o ZFill2(NatToStr(ymd[2])) \o Dash \o
    (IF pads THEN ZFill4(NatToStr(ymd[1])) ELSE NatToStr(ymd[1]))

\* normalize_date (pdf_processor.py): the first format that parses decides
normalize_date(date_str, pads) ==
    IF date_str = <<>> THEN <<>>
    ELSE LET s    == Strip(date_str)
             hits == {k \in 1..Len(LegacyFormats) : ~IsNone(Strptime(s, LegacyFormats[k]))}
         IN  IF hits = {} THEN s
             ELSE Strftime(Val(Strptime(s, LegacyFormats[CHOOSE k \in hits : \A j \in hits : k <= j])), pads)

(***************************************************************************)
(* Unit harness: one call of one function on one argument                  *)
(***************************************************************************)
\* the process_pdf variables while no document is being processed
PipeIdle ==
    /\ pc = "idle"
    /\ pdf = <<>>
    /\ transactions = <<>>
    /\ full_text = <<>>
    /\ result = <<>>

\* the service is not part of the run
ServiceIdle ==
    /\ backend = "none"
    /\ jobs_storage = <<>>
    /\ results_storage = <<>>
    /\ task = <<>>
    /\ response = <<>>

\* the call of the function named op returns val
Return(op, val) ==
    /\ output = <<>>
    /\ output' = <<[op |-> op, val |-> val]>>
    /\ UNCHANGED <<input, pipeVars, serviceVars>>

\* the call named op has returned
Returned(op) == output # <<>> /\ output[1].op = op

(***************************************************************************)
(* SpecNormalizer: the date and amount normalizers on one cell             *)
(***************************************************************************)
\* the digits the canonical dates of the input pool are written with
PoolDigits == {"0", "1", "2", "9"}

\* the years of the canonical dates of the input pool
PoolYears == { <<"2","0","2","5">>, <<"2","0","2","4">>, <<"1","9","9","9">>,
               <<"0","9","9","9">>, <<"0","0","0","0">>, <<"9","9","9","9">> }

\* every text of the form DD-MM-YYYY over the pool's digits and years
CanonicalDates ==
    {<<d1, d2, "-", m1, m2, "-">> \o y : d1 \in PoolDigits, d2 \in PoolDigits,
                                         m1 \in PoolDigits, m2 \in PoolDigits, y \in PoolYears}

\* canonical zero-padded DD-MM-YYYY: two digits, '-', two digits, '-', four digits
IsCanonicalDate(s) ==
    /\ Len(s) = 10
    /\ AllDigits(s, 1, 2) /\ s[3] = "-"
    /\ AllDigits(s, 4, 5) /\ s[6] = "-"
    /\ AllDigits(s, 7, 10)

\* dates in the other notations statements use, and texts that are no date
OtherDates ==
    {  <<"1","-","6","-","2","0","2","5">>,
       <<"0","1","/","0","6","/","2","5">>,
       <<"1","/","6","/","7","5">>,
       <<"2","0","2","5","-","0","6","-","0","1">>,
       <<"0","1"," ","J","u","n"," ","2","0","2","5">>,
       <<"1"," ","j","u","n",","," ","2","0","2","5">>,
       <<"0","1","-","J","u","n","-","2","0","2","5">>,
       <<"3","1","-","0","2","-","2","0","2","5">>,
       <<"0","1","-","0","6","-","2","0","2","5","6">>,
       <<"0","5","-","2","0","2","5">> }

\* amount cells: plain, grouped, signed, parenthesized, with a currency sign, malformed
AmountCells ==
    {  <<"(","1",",","2","5","0",".","5","0",")">>,
       <<"1",",","2","5","0",".","5","0">>,
       <<"-","3","0","1",".","0","0">>,
       <<"+","1","3","5",".","0","0">>,
       <<"$","5">>,
       <<"RUPEE","1",",","0","0",",","0","0","0",".","0","0">>,
       <<"(","a","b","c",")">>,
       <<"(",")">>,
       <<"1",".","2",".","3">>,
       <<"-","-","5">>,
       <<"-">>,
       <<"0",".","0","0">>,
       <<"(","-","5",")">>,
       <<"a","b","c">>,
       <<>>,
       <<" ","1","2",".","5"," ">>,
       <<"(","7",")">> }

NormalizerInputs == CanonicalDates \cup OtherDates \cup AmountCells

InitNormalizer ==
    /\ input \in NormalizerInputs
    /\ output = <<>>
    /\ PipeIdle
    /\ ServiceIdle

\* main.py: _normalize_date(cell)
NormalizeDate == Return("_normalize_date", _normalize_date(input))

\* pdf_processor.py: normalize_date(cell); strftime('%Y') pads a year below 1000
\* on some C libraries and not on others, so both results are possible
LegacyNormalizeDate == \E pads \in BOOLEAN : Return("normalize_date", normalize_date(input, pads))

\* main.py: _clean_amount(cell)
CleanAmount == Return("_clean_amount", _clean_amount(input))

\* pdf_processor.py: clean_amount(cell)
LegacyCleanAmount == Return("clean_amount", clean_amount(input))

NextNormalizer ==
    \/ NormalizeDate
    \/ LegacyNormalizeDate
    \/ CleanAmount
    \/ LegacyCleanAmount

SpecNormalizer == InitNormalizer /\ [][NextNormalizer]_vars

\* (1,250.50), the parenthesized amount of the specification's example
ParenExample == <<"(","1",",","2","5","0",".","5","0",")">>

\* C4: amount normalization yields a non-negative magnitude whatever sign marker
\* the cell carries, in both engines, and "(1,250.50)" normalizes to 1250.50.
C4_AmountsAreMagnitudes ==
    /\ Returned("_clean_amount") =>
          /\ output[1].val >= 0
          /\ (input = ParenExample => output[1].val = 125050)
    /\ Returned("clean_amount") =>
          /\ ~output[1].val.raised
          /\ output[1].val.val >= 0
          /\ (input = ParenExample => output[1].val.val = 125050)

\* What holds of main.py alone: _clean_amount returns a magnitude for every cell
\* of the pool, 1250.50 for "(1,250.50)".
MainCleanAmountIsMagnitude ==
    Returned("_clean_amount") =>
        /\ output[1].val >= 0
        /\ (input = ParenExample => output[1].val = 125050)

\* C10: normalizing a date that is already canonical DD-MM-YYYY returns it
\* unchanged, in both engines.
C10_CanonicalDateUnchanged ==
    (Returned("_normalize_date") \/ Returned("normalize_date")) /\ IsCanonicalDate(input)
        => output[1].val = input

\* What holds of main.py alone: _normalize_date returns every canonical date of
\* the pool unchanged, whether or not it is a date of the calendar.
MainNormalizeDateIdempotent ==
    Returned("_normalize_date") /\ IsCanonicalDate(input) => output[1].val = input

(***************************************************************************)
(* BankIdentifier                                                          *)
(***************************************************************************)
\* self.bank_patterns, in the insertion order dict.items() iterates in
bank_patterns ==
    << [code |-> "sbi", patterns |-> << <<"s","t","a","t","e"," ","b","a","n","k"," ","o","f"," ","i","n","d","i","a">>,
                 <<"s","b","i">>,
                 <<"s","t","a","t","e"," ","b","a","n","k">> >>],
       [code |-> "hdfc", patterns |-> << <<"h","d","f","c"," ","b","a","n","k">>,
                 <<"h","d","f","c">>,
                 <<"h","o","u","s","i","n","g"," ","d","e","v","e","l","o","p","m","e","n","t"," ","f","i","n","a","n","c","e">> >>],
       [code |-> "icici", patterns |-> << <<"i","c","i","c","i"," ","b","a","n","k">>,
                 <<"i","c","i","c","i">>,
                 <<"i","n","d","u","s","t","r","i","a","l"," ","c","r","e","d","i","t">> >>],
       [code |-> "axis", patterns |-> << <<"a","x","i","s"," ","b","a","n","k">>,
                 <<"a","x","i","s">> >>],
       [code |-> "pnb", patterns |-> << <<"p","u","n","j","a","b"," ","n","a","t","i","o","n","a","l"," ","b","a","n","k">>,
                 <<"p","n","b">> >>],
       [code |-> "kotak", patterns |-> << <<"k","o","t","a","k"," ","m","a","h","i","n","d","r","a"," ","b","a","n","k">>,
                 <<"k","o","t","a","k">> >>],
       [code |-> "indusind", patterns |-> << <<"i","n","d","u","s","i","n","d"," ","b","a","n","k">>,
                 <<"i","n","d","u","s","i","n","d">> >>],
       [code |-> "yes", patterns |-> << <<"y","e","s"," ","b","a","n","k">>,
                 <<"y","e","s">> >>],
       [code |-> "bob", patterns |-> << <<"b","a","n","k"," ","o","f"," ","b","a","r","o","d","a">>,
                 <<"b","a","r","o","d","a">> >>],
       [code |-> "canara", patterns |-> << <<"c","a","n","a","r","a"," ","b","a","n","k">>,
                 <<"c","a","n","a","r","a">> >>],
       [code |-> "union", patterns |-> << <<"u","n","i","o","n"," ","b","a","n","k">>,
                 <<"u","n","i","o","n">> >>],
       [code |-> "indian", patterns |-> << <<"i","n","d","i","a","n"," ","b","a","n","k">>,
                 <<"i","n","d","i","a","n">> >>],
       [code |-> "central", patterns |-> << <<"c","e","n","t","r","a","l"," ","b","a","n","k">>,
                 <<"c","e","n","t","r","a","l">> >>],
       [code |-> "idbi", patterns |-> << <<"i","d","b","i"," ","b","a","n","k">>,
                 <<"i","d","b","i">> >>],
       [code |-> "idfc", patterns |-> << <<"i","d","f","c"," ","f","i","r","s","t"," ","b","a","n","k">>,
                 <<"i","d","f","c">> >>] >>

\* self.bank_display_names
bank_display_names ==
    << [code |-> "sbi", name |-> "State Bank of India"],
       [code |-> "hdfc", name |-> "HDFC Bank"],
       [code |-> "icici", name |-> "ICICI Bank"],
       [code |-> "axis", name |-> "Axis Bank"],
       [code |-> "pnb", name |-> "Punjab National Bank"],
       [code |-> "kotak", name |-> "Kotak Mahindra Bank"],
       [code |-> "indusind", name |-> "IndusInd Bank"],
       [code |-> "yes", name |-> "Yes Bank"],
       [code |-> "bob", name |-> "Bank of Baroda"],
       [code |-> "canara", name |-> "Canara Bank"],
       [code |-> "union", name |-> "Union Bank of India"],
       [code |-> "indian", name |-> "Indian Bank"],
       [code |-> "central", name |-> "Central Bank of India"],
       [code |-> "idbi", name |-> "IDBI Bank"],
       [code |-> "idfc", name |-> "IDFC First Bank"] >>

\* the bank entry at index k has a pattern that occurs in text_lower
BankMatches(k, text_lower) ==
    \E j \in 1..Len(bank_patterns[k].patterns) : Contains(text_lower, bank_patterns[k].patterns[j])

\* detect_bank with the text compared as it is, without text.lower()
detect_bank_case_sensitive(text) ==
    LET hits == {k \in 1..Len(bank_patterns) : BankMatches(k, text)}
    IN  IF hits = {} THEN None
        ELSE Some(bank_patterns[CHOOSE k \in hits : \A j \in hits : k <= j].code)

\* detect_bank (the same code in main.py and in pdf_processor.py): the code of the
\* first entry one of whose patterns occurs in the lower-cased text, else None
detect_bank(text) ==
    LET text_lower == Lower(text)
        hits       == {k \in 1..Len(bank_patterns) : BankMatches(k, text_lower)}
    IN  IF hits = {} THEN None
        ELSE Some(bank_patterns[CHOOSE k \in hits : \A j \in hits : k <= j].code)

\* get_bank_display_name: bank_display_names.get(bank_code or '', 'Unknown Bank')
get_bank_display_name(bank_code) ==
    IF IsNone(bank_code) \/ ~\E k \in 1..Len(bank_display_names) : bank_display_names[k].code = Val(bank_code)
    THEN "Unknown Bank"
    ELSE bank_display_names[CHOOSE k \in 1..Len(bank_display_names) :
                                bank_display_names[k].code = Val(bank_code)].name

(***************************************************************************)
(* SpecBank: bank detection on one document text                           *)
(***************************************************************************)
\* what a document text holds before and after the bank's name
TextFragments ==
    { <<>>,
      <<"S","t","a","t","e","m","e","n","t"," ","o","f"," ","A","c","c","o","u","n","t","\n">>,
      <<"N","E","F","T","-","S","B","I","N","0","0","0","1","2","3","4"," ">>,
      <<"S","t","a","t","e"," ","B","a","n","k"," ","o","f"," ","I","n","d","i","a"," ">>,
      <<"Y","E","S"," ">>,
      <<" ","A","x","i","s"," ","B","a","n","k">>,
      <<" ","I","C","I","C","I">>,
      <<"k","o","t","a","k"," ">> }

\* the name of the bank as statements print it, and a text that is not the name
BankNameTexts ==
    { <<"H","D","F","C"," ","B","A","N","K"," ","L","T","D">>,
      <<"h","d","f","c"," ","b","a","n","k"," ","l","t","d">>,
      <<"H","d","f","c"," ","B","a","n","k"," ","L","t","d">>,
      <<"H","D","F","C","-","B","A","N","K">> }

BankInputs == {a \o b \o c : a \in TextFragments, b \in BankNameTexts, c \in TextFragments}

InitBank ==
    /\ input \in BankInputs
    /\ output = <<>>
    /\ PipeIdle
    /\ ServiceIdle

\* detect_bank(text), then get_bank_display_name of its result
DetectBank ==
    Return("detect_bank", [code |-> detect_bank(input),
                           name |-> get_bank_display_name(detect_bank(input))])

NextBank == DetectBank

SpecBank == InitBank /\ [][NextBank]_vars

HdfcBankLtd == <<"h","d","f","c"," ","b","a","n","k"," ","l","t","d">>

\* the text holds "HDFC BANK LTD" in some letter case
NamesHdfc(text) == Contains(Lower(text), HdfcBankLtd)

\* the text holds a pattern of an entry that bank_patterns lists before hdfc
NamesEarlierBank(text) ==
    \E k \in 1..Len(bank_patterns) :
        /\ \A j \in 1..k : bank_patterns[j].code # "hdfc"
        /\ BankMatches(k, Lower(text))

\* C9 as stated: a text that holds "HDFC BANK LTD" in any letter case yields
\* hdfc / "HDFC Bank", whatever else the text holds.
C9_HdfcWhateverElse ==
    Returned("detect_bank") /\ NamesHdfc(input)
        => output[1].val = [code |-> Some("hdfc"), name |-> "HDFC Bank"]

\* C9 amended: a text that holds "HDFC BANK LTD" in any letter case and holds no
\* pattern of the sbi entry, the only entry scanned before hdfc, yields
\* hdfc / "HDFC Bank", whatever else the text holds.
C9_HdfcUnlessEarlierBank ==
    Returned("detect_bank") /\ NamesHdfc(input) /\ ~NamesEarlierBank(input)
        => output[1].val = [code |-> Some("hdfc"), name |-> "HDFC Bank"]

\* C9 witness: an upper-case "HDFC BANK LTD" next to the name of a bank scanned
\* later is detected as hdfc.
C9_Witness ==
    /\ Returned("detect_bank")
    /\ Contains(input, <<"H","D","F","C"," ","B","A","N","K"," ","L","T","D">>)
    /\ Contains(Lower(input), <<"a","x","i","s"," ","b","a","n","k">>)
    /\ ~NamesEarlierBank(input)
    /\ output[1].val.code = Some("hdfc")

(***************************************************************************)
(* Deduplicator                                                            *)
(***************************************************************************)
\* A transaction is the dict the assembly paths of main.py return:
\* [date, chq_no, description, debit, credit, balance, init_br], the texts as
\* character sequences and the amounts optional numbers of hundredths.
Tx(date, chq_no, description, debit, credit, balance) ==
    [date |-> date, chq_no |-> chq_no, description |-> description,
     debit |-> debit, credit |-> credit, balance |-> balance, init_br |-> <<>>]

\* the key of _remove_duplicates. Every transaction holds the five keys, so the
\* defaults of transaction.get(k, 0) are never used and an absent amount enters
\* the key as None
TxKey(t) == <<t.date, t.description, t.debit, t.credit, t.balance>>

\* the loop of _remove_duplicates with the last instance of a key kept
RECURSIVE DedupKeepLast(_)
DedupKeepLast(txs) ==
    IF txs = <<>> THEN <<>>
    ELSE IF \E j \in 2..Len(txs) : TxKey(txs[j]) = TxKey(Head(txs))
         THEN DedupKeepLast(Tail(txs))
         ELSE <<Head(txs)>> \o DedupKeepLast(Tail(txs))

_remove_duplicates_keep_last(txs) == DedupKeepLast(txs)

\* the loop of _remove_duplicates over the rest of the list, with the set seen
\* and the list unique_transactions built so far
RECURSIVE DedupLoop(_, _, _)
DedupLoop(rest, seen, unique_transactions) ==
    IF rest = <<>> THEN unique_transactions
    ELSE LET key == TxKey(Head(rest))
         IN  IF key \notin seen
             THEN DedupLoop(Tail(rest), seen \cup {key}, Append(unique_transactions, Head(rest)))
             ELSE DedupLoop(Tail(rest), seen, unique_transactions)

\* _remove_duplicates
_remove_duplicates(txs) == DedupLoop(txs, {}, <<>>)

(***************************************************************************)
(* SpecDedup: _remove_duplicates on one list of transactions               *)
(***************************************************************************)
\* the longest list of transactions handed to _remove_duplicates
MaxTxs == 3

Date0106 == <<"0","1","-","0","6","-","2","0","2","5">>

Date0206 == <<"0","2","-","0","6","-","2","0","2","5">>

SalaryCredit == <<"S","a","l","a","r","y"," ","C","r","e","d","i","t">>

UpiRef == <<"U","P","I","-","1","2","3","4","5">>

\* transactions as the table path and the text path produce them: the second
\* differs from the first in the reference only (same key), the third has debit
\* 0.0 where the first has none, the fourth has no balance, the fifth another date
DedupPool ==
    { Tx(Date0106, <<>>,   SalaryCredit, None,    Some(5000000), Some(15000000)),
      Tx(Date0106, UpiRef, SalaryCredit, None,    Some(5000000), Some(15000000)),
      Tx(Date0106, <<>>,   SalaryCredit, Some(0), Some(5000000), Some(15000000)),
      Tx(Date0106, <<>>,   SalaryCredit, None,    Some(5000000), None),
      Tx(Date0206, <<>>,   SalaryCredit, None,    Some(5000000), Some(15000000)) }

\* the sequences over S of length at most n
SeqsUpTo(S, n) == UNION {[1..k -> S] : k \in 0..n}

InitDedup ==
    /\ input \in SeqsUpTo(DedupPool, MaxTxs)
    /\ output = <<>>
    /\ PipeIdle
    /\ ServiceIdle

RemoveDuplicates == Return("_remove_duplicates", _remove_duplicates(input))

NextDedup == RemoveDuplicates

SpecDedup == InitDedup /\ [][NextDedup]_vars

\* the positions of txs that hold the first occurrence of their key
FirstOccurrences(txs) ==
    {i \in 1..Len(txs) : \A j \in 1..(i - 1) : TxKey(txs[j]) # TxKey(txs[i])}

\* C1: the Deduplicator returns exactly the first occurrence of each key, in
\* input order: the k-th kept transaction is the input at the k-th position that
\* holds a first occurrence, and nothing else is kept.
C1_KeepsFirstOccurrences ==
    Returned("_remove_duplicates") =>
        LET first == FirstOccurrences(input)
            out   == output[1].val
        IN  /\ Len(out) = Cardinality(first)
            /\ \A i \in first : out[Cardinality({j \in first : j <= i})] = input[i]

\* C1 witness: a list in which a later transaction repeats the key of an earlier
\* one with another reference, between two transactions that are kept.
C1_Witness ==
    /\ Returned("_remove_duplicates")
    /\ Len(input) = 3
    /\ TxKey(input[2]) = TxKey(input[1]) /\ input[2] # input[1]
    /\ TxKey(input[3]) # TxKey(input[1])
    /\ output[1].val = <<input[1], input[3]>>

(***************************************************************************)
(* RowClassifier (main.py)                                                 *)
(***************************************************************************)
\* summary_patterns of _is_summary_row
summary_patterns ==
    { <<"t","r","a","n","s","a","c","t","i","o","n"," ","t","o","t","a","l">>,
      <<"o","p","e","n","i","n","g"," ","b","a","l","a","n","c","e">>,
      <<"c","l","o","s","i","n","g"," ","b","a","l","a","n","c","e">>,
      <<"t","o","t","a","l"," ","d","e","b","i","t">>,
      <<"t","o","t","a","l"," ","c","r","e","d","i","t">>,
      <<"n","e","t"," ","a","m","o","u","n","t">>,
      <<"b","a","l","a","n","c","e"," ","b","/","f">>,
      <<"b","a","l","a","n","c","e"," ","c","/","f">>,
      <<"b","r","o","u","g","h","t"," ","f","o","r","w","a","r","d">>,
      <<"c","a","r","r","i","e","d"," ","f","o","r","w","a","r","d">>,
      <<"s","u","b","t","o","t","a","l">>,
      <<"g","r","a","n","d"," ","t","o","t","a","l">>,
      <<"s","u","m","m","a","r","y">>,
      <<"t","o","t","a","l"," ","a","m","o","u","n","t">> }

\* charge_patterns of _is_summary_row
summary_charge_patterns ==
    { <<"c","h","a","r","g","e"," ","t","y","p","e">>,
      <<"c","h","a","r","g","e","s","(","r","s",")">>,
      <<"t","o","t","a","l","(","r","s",")">>,
      <<"r","t","g","s"," ","f","e","e">>,
      <<"c","a","s","h"," ","t","r","a","n","s","a","c","t","i","o","n"," ","f","e","e">>,
      <<"s","e","r","v","i","c","e"," ","c","h","a","r","g","e">>,
      <<"p","r","o","c","e","s","s","i","n","g"," ","f","e","e">>,
      <<"a","n","n","u","a","l"," ","f","e","e">>,
      <<"m","a","i","n","t","e","n","a","n","c","e"," ","f","e","e">>,
      <<"s","m","s"," ","c","h","a","r","g","e","s">>,
      <<"a","t","m"," ","c","h","a","r","g","e","s">>,
      <<"d","e","b","i","t"," ","c","a","r","d"," ","c","h","a","r","g","e","s">>,
      <<"c","h","e","q","u","e"," ","b","o","o","k"," ","c","h","a","r","g","e","s">>,
      <<"r","e","c","o","v","e","r"," ","d","a","t","e">>,
      <<"p","e","r","i","o","d">>,
      <<"s","r","."," ","n","o">>,
      <<"s","r",".","n","o">>,
      <<"c","h","a","r","g","e","a","b","l","e"," ","a","m","o","u","n","t">>,
      <<"n","e","t"," ","c","h","a","r","g","e","a","b","l","e">>,
      <<"c","h","a","r","g","e","s"," ","i","n","d","i","c","a","t","e">> }

\* charge_header_patterns of _is_charge_table_header
charge_header_patterns ==
    { <<"s","r","."," ","n","o">>,
      <<"s","r",".","n","o">>,
      <<"p","e","r","i","o","d">>,
      <<"r","e","c","o","v","e","r"," ","d","a","t","e">>,
      <<"c","h","a","r","g","e"," ","t","y","p","e">>,
      <<"c","h","a","r","g","e","s","(","r","s",")">>,
      <<"t","o","t","a","l","(","r","s",")">>,
      <<"s","e","r","v","i","c","e"," ","c","h","a","r","g","e","s">>,
      <<"f","e","e","s"," ","s","u","m","m","a","r","y">>,
      <<"t","r","a","n","s","a","c","t","i","o","n"," ","c","h","a","r","g","e","s">> }

\* transaction_header_patterns of _is_transaction_table_header
transaction_header_patterns ==
    { <<"t","r","a","n"," ","d","a","t","e">>,
      <<"t","r","a","n","s","a","c","t","i","o","n"," ","d","a","t","e">>,
      <<"p","a","r","t","i","c","u","l","a","r","s">>,
      <<"d","e","b","i","t">>,
      <<"c","r","e","d","i","t">>,
      <<"b","a","l","a","n","c","e">>,
      <<"i","n","i","t",".","b","r">>,
      <<"c","h","q"," ","n","o">>,
      <<"c","h","e","c","k"," ","n","o">>,
      <<"r","e","f","e","r","e","n","c","e">>,
      <<"d","e","s","c","r","i","p","t","i","o","n">> }

\* charge_patterns of _is_invalid_row
invalid_charge_patterns ==
    { <<"c","h","a","r","g","e"," ","t","y","p","e">>,
      <<"c","h","a","r","g","e","s","(","r","s",")">>,
      <<"t","o","t","a","l","(","r","s",")">>,
      <<"r","t","g","s"," ","f","e","e">>,
      <<"c","a","s","h"," ","t","r","a","n","s","a","c","t","i","o","n"," ","f","e","e">>,
      <<"s","e","r","v","i","c","e"," ","c","h","a","r","g","e">>,
      <<"p","r","o","c","e","s","s","i","n","g"," ","f","e","e">>,
      <<"r","e","c","o","v","e","r"," ","d","a","t","e">>,
      <<"s","r","."," ","n","o">>,
      <<"s","r",".","n","o">>,
      <<"p","e","r","i","o","d">>,
      <<"c","h","a","r","g","e","a","b","l","e"," ","a","m","o","u","n","t">>,
      <<"n","e","t"," ","c","h","a","r","g","e","a","b","l","e">> }

\* any(pattern in text for pattern in patterns)
AnyIn(text, patterns) == \E q \in patterns : Contains(text, q)

\* sep.join(parts)
RECURSIVE Join(_, _)
Join(parts, sep) ==
    IF parts = <<>> THEN <<>>
    ELSE IF Len(parts) = 1 THEN parts[1]
    ELSE parts[1] \o sep \o Join(Tail(parts), sep)

Space == <<" ">>

\* [cell.strip() if cell else '' for cell in row]; a cell that is None and a cell
\* that is '' are both the empty sequence, the source treats them alike
CleanRow(row) == [i \in 1..Len(row) |-> Strip(row[i])]

\* a text of the form digits-digits of at most 8 characters, like "05-2025"
IsPeriod(t) ==
    /\ Count(t, "-") = 1
    /\ Len(t) <= 8
    /\ \A i \in 1..2 : IsDigitStr(SplitOn(t, "-")[i])

\* _is_summary_row with the keywords compared in the letter case of the description
_is_summary_row_cased(description) ==
    IF description = <<>> THEN FALSE
    ELSE LET d == Strip(description)
         IN  \/ AnyIn(d, summary_patterns)
             \/ AnyIn(d, summary_charge_patterns)
             \/ Len(d) <= 2
             \/ (IsDigitStr(d) /\ Len(d) <= 3)
             \/ IsPeriod(d)

\* _is_summary_row
_is_summary_row(description) ==
    IF description = <<>> THEN FALSE
    ELSE LET d == Strip(description)
         IN  \/ AnyIn(Strip(Lower(description)), summary_patterns)
             \/ AnyIn(Strip(Lower(description)), summary_charge_patterns)
             \/ Len(d) <= 2
             \/ (IsDigitStr(d) /\ Len(d) <= 3)
             \/ IsPeriod(d)

\* the number of the patterns that occur in the joined lower-cased cells reaches
\* the threshold (rows of fewer than 3 cells are never headers)
HeaderLike(row, patterns, threshold) ==
    /\ Len(row) >= 3
    /\ Cardinality({q \in patterns : Contains(Lower(Join(CleanRow(row), Space)), q)}) >= threshold

\* _is_charge_table_header
_is_charge_table_header(row) == HeaderLike(row, charge_header_patterns, 2)

\* _is_transaction_table_header
_is_transaction_table_header(row) == HeaderLike(row, transaction_header_patterns, 3)

\* the non-empty cells of a row
RECURSIVE NonEmpty(_)
NonEmpty(cells) ==
    IF cells = <<>> THEN <<>>
    ELSE IF Head(cells) = <<>> THEN NonEmpty(Tail(cells))
    ELSE <<Head(cells)>> \o NonEmpty(Tail(cells))

\* _is_invalid_row
_is_invalid_row(row) ==
    IF row = <<>> THEN TRUE
    ELSE LET cleaned_row == CleanRow(row)
             all_text    == Lower(Join(NonEmpty(cleaned_row), Space))
             first_col   == cleaned_row[1]
             second_col  == cleaned_row[2]
         IN  IF AnyIn(all_text, invalid_charge_patterns) THEN TRUE
             ELSE IF /\ Contains(all_text, <<"d","a","t","e">>)
                     /\ Contains(all_text, <<"t","r","a","n","s","a","c","t","i","o","n">>)
                     /\ Contains(all_text, <<"d","e","t","a","i","l","s">>) THEN TRUE
             ELSE IF /\ Contains(all_text, <<"t","r","a","n"," ","d","a","t","e">>)
                     /\ Contains(all_text, <<"p","a","r","t","i","c","u","l","a","r","s">>) THEN TRUE
             ELSE IF _is_date(first_col) \/ _looks_like_date(first_col) THEN FALSE
             ELSE IF Len(cleaned_row) < 2 THEN FALSE
             ELSE \/ /\ IsDigitStr(first_col)
                     /\ DigitsToNat(first_col) \in 1..99
                     /\ _is_date(second_col)
                  \/ IsPeriod(first_col)

(***************************************************************************)
(* TransactionAssembler (main.py)                                          *)
(***************************************************************************)
\* the test for a reference cell: 'UPI-' prefix, all digits, or at least five
\* characters one of which is a digit
IsReference(cell) ==
    \/ StartsWith(cell, <<"U","P","I","-">>)
    \/ IsDigitStr(cell)
    \/ (Len(cell) >= 5 /\ \E i \in 1..Len(cell) : IsDigit(cell[i]))

\* the local variables of _parse_table_row before its loop
NoFields ==
    [tran_date |-> <<>>, chq_no |-> <<>>, particulars |-> <<>>,
     debit_amount |-> None, credit_amount |-> None, balance |-> None]

\* where _parse_table_row puts the amount of the cell at 0-based index i: by
\* position in columns 3, 4 and 5, else in the first free of balance, debit, credit
PlaceAmount(f, i, amount_val) ==
    IF amount_val <= 0 THEN f
    ELSE IF i = 3 THEN [f EXCEPT !.debit_amount = Some(amount_val)]
    ELSE IF i = 4 THEN [f EXCEPT !.credit_amount = Some(amount_val)]
    ELSE IF i = 5 THEN [f EXCEPT !.balance = Some(amount_val)]
    ELSE IF IsNone(f.balance) THEN [f EXCEPT !.balance = Some(amount_val)]
    ELSE IF IsNone(f.debit_amount) THEN [f EXCEPT !.debit_amount = Some(amount_val)]
    ELSE IF IsNone(f.credit_amount) THEN [f EXCEPT !.credit_amount = Some(amount_val)]
    ELSE f

\* one iteration of the loop of _parse_table_row (i is the 0-based index)
ParseCell(f, i, cell) ==
    IF cell = <<>> THEN f
    ELSE IF f.tran_date = <<>> /\ (_is_date(cell) \/ _looks_like_date(cell))
         THEN [f EXCEPT !.tran_date = cell]
    ELSE IF _is_amount(cell) THEN PlaceAmount(f, i, _clean_amount(cell))
    ELSE IF cell[1] \in {"-", "+"} /\ _is_amount(Tail(cell))
         THEN [f EXCEPT ![IF cell[1] = "-" THEN "debit_amount" ELSE "credit_amount"] =
                           Some(_clean_amount(Tail(cell)))]
    ELSE IF f.chq_no = <<>> /\ IsReference(cell)
         THEN [f EXCEPT !.chq_no = cell]
    ELSE IF f.particulars # <<>>
         THEN [f EXCEPT !.particulars = f.particulars \o Space \o cell]
    ELSE [f EXCEPT !.particulars = cell]

\* the loop of _parse_table_row over cleaned_row[i..] (i is the 0-based index);
\* the fields so far are bound as f, so that they are computed once
RECURSIVE ParseCells(_, _, _)
ParseCells(cleaned_row, i, fields) ==
    CHOOSE after \in
        { IF i >= Len(cleaned_row) THEN f
          ELSE ParseCells(cleaned_row, i + 1, ParseCell(f, i, cleaned_row[i + 1]))
          : f \in {fields} } : TRUE

\* the end of _parse_table_row, from the summary filter on: None, or the
\* transaction made of the fields the loop has found
RowTransaction(f) ==
    IF _is_summary_row(f.particulars) THEN None
    ELSE IF f.tran_date = <<>> /\ f.particulars = <<>> THEN None
    ELSE IF IsNone(f.debit_amount) /\ IsNone(f.credit_amount) THEN None
    ELSE Some(Tx(_normalize_date(f.tran_date), f.chq_no,
                 IF f.particulars # <<>> THEN f.particulars
                 ELSE <<"T","r","a","n","s","a","c","t","i","o","n">>,
                 f.debit_amount, f.credit_amount, f.balance))

\* _parse_table_row: None, or the transaction of a row read by position
_parse_table_row(row) ==
    IF Len(row) < 3 THEN None
    ELSE IF _is_charge_table_header(row) \/ _is_transaction_table_header(row) THEN None
    ELSE IF _is_invalid_row(row) THEN None
    ELSE RowTransaction(ParseCells(CleanRow(row), 0, NoFields))

\* the column mapping: each field is None or the 0-based index of its column
NoMapping ==
    [date |-> None, debit |-> None, credit |-> None, balance |-> None,
     description |-> None, reference |-> None]

\* the checks both _extract_transaction_from_row and
\* _parse_transaction_line_universal end with, the amount check left out
ValidateAnyAmounts(transaction_data) ==
    IF transaction_data.description = <<>> /\ transaction_data.date = <<>> THEN None
    ELSE IF _is_summary_row(transaction_data.description) THEN None
    ELSE Some(transaction_data)

\* the checks both _extract_transaction_from_row and
\* _parse_transaction_line_universal end with: a date or a description, no
\* summary description, at least one amount
Validate(transaction_data) ==
    IF transaction_data.description = <<>> /\ transaction_data.date = <<>> THEN None
    ELSE IF _is_summary_row(transaction_data.description) THEN None
    ELSE IF /\ IsNone(transaction_data.debit)
            /\ IsNone(transaction_data.credit)
            /\ IsNone(transaction_data.balance) THEN None
    ELSE Some(transaction_data)

\* row[col_idx].strip() of a mapped field, empty when the field is not mapped, the
\* index is beyond the row or the cell is None or ''
MappedCell(row, col_idx) ==
    IF IsNone(col_idx) \/ Val(col_idx) >= Len(row) THEN <<>>
    ELSE Strip(row[Val(col_idx) + 1])

\* the amount of a mapped cell, set whenever the cell is not empty
MappedAmountUnchecked(cell_value) ==
    IF cell_value = <<>> THEN None ELSE Some(_clean_amount(cell_value))

\* the amount of a mapped cell: set only when the cell is an amount
MappedAmount(cell_value) ==
    IF _is_amount(cell_value) THEN Some(_clean_amount(cell_value)) ELSE None

\* the end of _extract_transaction_from_row: the positional fallback when the
\* mapping has given neither a date nor a description, else the validation
MappedTransaction(row, transaction_data) ==
    IF transaction_data.date = <<>> /\ transaction_data.description = <<>>
    THEN _parse_table_row(row)
    ELSE Validate(transaction_data)

\* _extract_transaction_from_row
_extract_transaction_from_row(row, column_mapping) ==
    IF row = <<>> THEN None
    ELSE MappedTransaction(row,
             Tx(_normalize_date(MappedCell(row, column_mapping.date)),
                MappedCell(row, column_mapping.reference),
                MappedCell(row, column_mapping.description),
                MappedAmount(MappedCell(row, column_mapping.debit)),
                MappedAmount(MappedCell(row, column_mapping.credit)),
                MappedAmount(MappedCell(row, column_mapping.balance))))

(***************************************************************************)
(* TextLineFallbackExtractor (main.py)                                     *)
(***************************************************************************)
\* re.split(r'\s{2,}|\t', line): the part that starts at position i, cut at the
\* first run of two or more white-space characters or at the first tab
RECURSIVE SplitGaps(_, _, _)
SplitGaps(line, start, i) ==
    IF i > Len(line) THEN <<Slice(line, start, Len(line))>>
    ELSE IF SpaceRun(line, i) >= 2
         THEN <<Slice(line, start, i - 1)>>
              \o SplitGaps(line, i + SpaceRun(line, i), i + SpaceRun(line, i))
    ELSE IF line[i] = "\t"
         THEN <<Slice(line, start, i - 1)>> \o SplitGaps(line, i + 1, i + 1)
    ELSE SplitGaps(line, start, i + 1)

\* where _parse_transaction_line_universal puts an amount: by its sign when that
\* field is free, else in the first free of balance and debit
PlacePartAmount(f, sign, amount) ==
    IF sign = "-" /\ IsNone(f.debit) THEN [f EXCEPT !.debit = Some(amount)]
    ELSE IF sign = "+" /\ IsNone(f.credit) THEN [f EXCEPT !.credit = Some(amount)]
    ELSE IF IsNone(f.balance) THEN [f EXCEPT !.balance = Some(amount)]
    ELSE IF IsNone(f.debit) THEN [f EXCEPT !.debit = Some(amount)]
    ELSE f

\* one iteration of the loop of _parse_transaction_line_universal
ParsePart(f, raw) ==
    LET part == Strip(raw)
    IN  IF part = <<>> THEN f
        ELSE IF f.date = <<>> /\ (_is_date(part) \/ _looks_like_date(part))
             THEN [f EXCEPT !.date = _normalize_date(part)]
        ELSE IF _is_amount(part) THEN PlacePartAmount(f, part[1], _clean_amount(part))
        ELSE IF f.chq_no = <<>> /\ IsReference(part)
             THEN [f EXCEPT !.chq_no = part]
        ELSE [f EXCEPT !.description = IF @ = <<>> THEN part ELSE @ \o Space \o part]

\* the loop of _parse_transaction_line_universal
RECURSIVE ParseParts(_, _)
ParseParts(parts, transaction_data) ==
    CHOOSE after \in
        { IF parts = <<>> THEN f ELSE ParseParts(Tail(parts), ParsePart(f, Head(parts)))
          : f \in {transaction_data} } : TRUE

\* _parse_transaction_line_universal
_parse_transaction_line_universal(line) ==
    Validate(ParseParts(SplitGaps(line, 1, 1), Tx(<<>>, <<>>, <<>>, None, None, None)))

\* text.split('\n') with each line stripped
Lines(text) == [i \in 1..Len(SplitOn(text, "\n")) |-> Strip(SplitOn(text, "\n")[i])]

\* the loop of _extract_from_text_universal
RECURSIVE TextLoop(_)
TextLoop(lines) ==
    IF lines = <<>> THEN <<>>
    ELSE (IF Len(Head(lines)) >= 15 /\ _contains_date(Head(lines)) /\ _contains_amount(Head(lines))
          THEN _parse_transaction_line_universal(Head(lines))
          ELSE None)
         \o TextLoop(Tail(lines))

\* _extract_from_text_universal
_extract_from_text_universal(text) == TextLoop(Lines(text))

(***************************************************************************)
(* ColumnRoleInferencer and table parsing (main.py)                        *)
(***************************************************************************)
date_indicators ==
    { <<"d","a","t","e">>, <<"t","r","a","n"," ","d","a","t","e">>,
      <<"t","r","a","n","s","a","c","t","i","o","n"," ","d","a","t","e">>,
      <<"t","x","n"," ","d","a","t","e">> }

amount_indicators ==
    { <<"d","e","b","i","t">>, <<"c","r","e","d","i","t">>, <<"b","a","l","a","n","c","e">>,
      <<"a","m","o","u","n","t">>, <<"w","i","t","h","d","r","a","w","a","l">>,
      <<"d","e","p","o","s","i","t">> }

desc_indicators ==
    { <<"p","a","r","t","i","c","u","l","a","r","s">>,
      <<"d","e","s","c","r","i","p","t","i","o","n">>, <<"d","e","t","a","i","l","s">>,
      <<"t","r","a","n","s","a","c","t","i","o","n"," ","d","e","t","a","i","l","s">>,
      <<"n","a","r","r","a","t","i","o","n">> }

\* the field a header cell is mapped to by the if/elif chain of
\* _parse_table_universal, "" when no branch takes it
HeaderField(cell) ==
    IF AnyIn(cell, date_indicators) THEN "date"
    ELSE IF AnyIn(cell, {<<"d","e","b","i","t">>, <<"w","i","t","h","d","r","a","w","a","l">>})
         THEN "debit"
    ELSE IF AnyIn(cell, {<<"c","r","e","d","i","t">>, <<"d","e","p","o","s","i","t">>})
         THEN "credit"
    ELSE IF Contains(cell, <<"b","a","l","a","n","c","e">>) THEN "balance"
    ELSE IF AnyIn(cell, desc_indicators) THEN "description"
    ELSE IF AnyIn(cell, {<<"r","e","f","e","r","e","n","c","e">>, <<"r","e","f">>,
                         <<"c","h","q">>, <<"c","h","e","q","u","e">>})
         THEN "reference"
    ELSE ""

\* the row is a header row for _parse_table_universal
IsHeaderRow(row) ==
    /\ row # <<>>
    /\ LET row_text == Lower(Join(CleanRow(row), Space))
       IN  /\ AnyIn(row_text, date_indicators)
           /\ AnyIn(row_text, amount_indicators) \/ AnyIn(row_text, desc_indicators)

\* the mapping the header row gives: assignments overwrite, so each field is
\* bound to the last column whose cell is mapped to it
HeaderMapping(row) ==
    LET cleaned_row == CleanRow(row)
        cols(field) == {j \in 0..(Len(row) - 1) : HeaderField(Lower(cleaned_row[j + 1])) = field}
        last(field) == IF cols(field) = {} THEN None
                       ELSE Some(CHOOSE j \in cols(field) : \A k \in cols(field) : k <= j)
    IN  [field \in DOMAIN NoMapping |-> last(field)]

\* one cell of the first loop of _infer_columns_from_data (i is the 0-based index)
InferCell(column_mapping, i, raw) ==
    LET cell == Strip(raw)
    IN  IF cell = <<>> THEN column_mapping
        ELSE IF IsNone(column_mapping.date) /\ (_is_date(cell) \/ _looks_like_date(cell))
             THEN [column_mapping EXCEPT !.date = Some(i)]
        ELSE IF _is_amount(cell)
             THEN IF i = 3 /\ IsNone(column_mapping.debit)
                  THEN [column_mapping EXCEPT !.debit = Some(i)]
                  ELSE IF i = 4 /\ IsNone(column_mapping.credit)
                  THEN [column_mapping EXCEPT !.credit = Some(i)]
                  ELSE IF IsNone(column_mapping.balance)
                  THEN [column_mapping EXCEPT !.balance = Some(i)]
                  ELSE column_mapping
        ELSE IF IsNone(column_mapping.reference) /\ IsReference(cell)
             THEN [column_mapping EXCEPT !.reference = Some(i)]
        ELSE column_mapping

\* the first loop of _infer_columns_from_data from cell i of row r on
RECURSIVE InferCells(_, _, _, _)
InferCells(sample_rows, r, i, column_mapping) ==
    CHOOSE after \in
        { IF r > Len(sample_rows) THEN m
          ELSE IF Len(sample_rows[r]) < 3 \/ i >= Len(sample_rows[r])
               THEN InferCells(sample_rows, r + 1, 0, m)
          ELSE InferCells(sample_rows, r, i + 1, InferCell(m, i, sample_rows[r][i + 1]))
          : m \in {column_mapping} } : TRUE

\* _infer_columns_from_data
_infer_columns_from_data(table) ==
    LET sample_rows == SubSeq(table, 1, IF Len(table) > 10 THEN 10 ELSE Len(table))
        first       == InferCells(sample_rows, 1, 0, NoMapping)
        taken       == {Val(first[field]) : field \in {g \in DOMAIN first : ~IsNone(first[g])}}
        cells       == UNION {{<<r, i>> : i \in 0..(Len(sample_rows[r]) - 1)} :
                                r \in 1..Len(sample_rows)}
        wide        == {<<r, i>> \in cells :
                          /\ Len(Strip(sample_rows[r][i + 1])) > 10
                          /\ i \notin taken
                          /\ ~_is_date(sample_rows[r][i + 1])
                          /\ ~_is_amount(sample_rows[r][i + 1])}
    IN  IF wide = {} THEN first
        ELSE [first EXCEPT !.description =
                 Some((CHOOSE c \in wide : \A d \in wide :
                          c[1] < d[1] \/ (c[1] = d[1] /\ c[2] <= d[2]))[2])]

\* the rows of table[start..] (0-based start) that _extract_transaction_from_row
\* turns into transactions under the mapping; rows of fewer than 3 cells are skipped
\* (a result that is None or Some(transaction) is the list of no or one transaction)
RECURSIVE DataRows(_, _, _)
DataRows(table, start, column_mapping) ==
    IF start >= Len(table) THEN <<>>
    ELSE (IF Len(table[start + 1]) < 3 THEN None
          ELSE _extract_transaction_from_row(table[start + 1], column_mapping))
         \o DataRows(table, start + 1, column_mapping)

\* the 0-based indices of the rows of the table that are header rows
HeaderRows(table) == {i \in 0..(Len(table) - 1) : IsHeaderRow(table[i + 1])}

\* header_row_idx: the first header row, -1 when there is none
HeaderRowIdx(table) ==
    IF HeaderRows(table) = {} THEN -1
    ELSE CHOOSE i \in HeaderRows(table) : \A k \in HeaderRows(table) : i <= k

\* the mapping a header row gives with each field bound to the first column whose
\* cell is mapped to it
HeaderMappingFirst(row) ==
    [field \in DOMAIN NoMapping |->
        IF \E j \in 0..(Len(row) - 1) : HeaderField(Lower(CleanRow(row)[j + 1])) = field
        THEN Some(CHOOSE j \in 0..(Len(row) - 1) :
                      /\ HeaderField(Lower(CleanRow(row)[j + 1])) = field
                      /\ \A k \in 0..(j - 1) : HeaderField(Lower(CleanRow(row)[k + 1])) # field)
        ELSE None]

\* column_mapping of _parse_table_universal after its steps 1 and 2: the mapping
\* of the first header row, or the inferred one when no row is a header row
ColumnMapping(table) ==
    IF HeaderRowIdx(table) = -1 THEN _infer_columns_from_data(table)
    ELSE HeaderMapping(table[HeaderRowIdx(table) + 1])

\* _parse_table_universal
_parse_table_universal(table) ==
    IF Len(table) < 2 THEN <<>>
    ELSE DataRows(table, HeaderRowIdx(table) + 1, ColumnMapping(table))

(***************************************************************************)
(* SpecAssemble: the three assembly paths on one row                       *)
(***************************************************************************)
ClosingBalance == <<"C","l","o","s","i","n","g"," ","B","a","l","a","n","c","e">>

ClosingBalanceCaps == <<"C","L","O","S","I","N","G"," ","B","A","L","A","N","C","E">>

\* the cells a statement row is built from, column by column: date, reference,
\* particulars, debit, credit, balance
RowCells ==
    << {<<>>, Date0106, <<"0","1"," ","J","u","n",","," ","2","0","2","5">>},
       {<<>>, UpiRef},
       {<<>>, SalaryCredit, ClosingBalance, ClosingBalanceCaps,
        <<"A","T","M"," ","C","h","a","r","g","e","s">>},
       {<<>>, <<"3","0","1",".","0","0">>},
       {<<>>, <<"5",",","0","0","0",".","0","0">>},
       {<<>>, <<"1","5",",","0","0","0",".","0","0">>} >>

Rows == {<<date, chq_no, particulars, debit, credit, balance>> :
            date \in RowCells[1], chq_no \in RowCells[2], particulars \in RowCells[3],
            debit \in RowCells[4], credit \in RowCells[5], balance \in RowCells[6]}

\* the mapping of the header Tran Date | Chq No | Particulars | Debit | Credit |
\* Balance, the same without a particulars column, and no mapping at all
FullMapping ==
    [date |-> Some(0), reference |-> Some(1), description |-> Some(2),
     debit |-> Some(3), credit |-> Some(4), balance |-> Some(5)]

Mappings == {FullMapping, [FullMapping EXCEPT !.description = None], NoMapping}

\* a debit row whose reference cell holds two of the charge-header keywords
ChargeKeywordRow ==
    << Date0106, <<"s","r",".","n","o"," ","p","e","r","i","o","d">>,
       <<"A","T","M"," ","w","i","t","h","d","r","a","w","a","l">>,
       <<"3","0","1",".","0","0">>, <<>>, <<>> >>

\* a debit row whose debit is written with a minus sign
SignedDebitRow ==
    << Date0206, <<>>, <<"U","P","I"," ","p","a","y","m","e","n","t">>,
       <<"-","3","0","1",".","0","0">>, <<>>, <<"1","4",",","6","9","9",".","0","0">> >>

InitAssemble ==
    /\ input \in [row : Rows \cup {ChargeKeywordRow, SignedDebitRow},
                  column_mapping : Mappings]
    /\ output = <<>>
    /\ PipeIdle
    /\ ServiceIdle

\* the column-mapped path
ExtractTransactionFromRow ==
    Return("_extract_transaction_from_row",
           _extract_transaction_from_row(input.row, input.column_mapping))

\* the positional path
ParseTableRow == Return("_parse_table_row", _parse_table_row(input.row))

\* the text path, on the line the row makes when its cells are printed two spaces apart
ParseTransactionLine ==
    Return("_parse_transaction_line_universal",
           _parse_transaction_line_universal(Join(NonEmpty(input.row), <<" ", " ">>)))

NextAssemble == ExtractTransactionFromRow \/ ParseTableRow \/ ParseTransactionLine

SpecAssemble == InitAssemble /\ [][NextAssemble]_vars

AssemblyOps ==
    {"_extract_transaction_from_row", "_parse_table_row", "_parse_transaction_line_universal"}

\* at least one of debit, credit, balance is set
HasAmount(t) == ~IsNone(t.debit) \/ ~IsNone(t.credit) \/ ~IsNone(t.balance)

\* C3: whichever assembly path runs (column-mapped row, positional row, text
\* line), a transaction it returns has a non-empty date or a non-empty description
\* and at least one of debit, credit, balance set; a row without a date cell and a
\* particulars cell, and a row without an amount cell, yield no transaction.
C3_TransactionsAreValid ==
    \A op \in AssemblyOps :
        Returned(op) =>
            /\ ~IsNone(output[1].val) =>
                   /\ Val(output[1].val).date # <<>> \/ Val(output[1].val).description # <<>>
                   /\ HasAmount(Val(output[1].val))
            /\ input.row[1] = <<>> /\ input.row[3] = <<>> => IsNone(output[1].val)
            /\ (\A i \in 4..6 : input.row[i] = <<>>) => IsNone(output[1].val)

\* the text path has returned a transaction without a date whose only amount is
\* the balance
C3_Witness ==
    /\ Returned("_parse_transaction_line_universal")
    /\ ~IsNone(output[1].val)
    /\ Val(output[1].val).date = <<>>
    /\ Val(output[1].val).description = SalaryCredit
    /\ IsNone(Val(output[1].val).debit) /\ IsNone(Val(output[1].val).credit)
    /\ Val(output[1].val).balance = Some(1500000)

\* the description holds a keyword of the summary/total/fee set, in any letter case
HasSummaryKeyword(description) ==
    AnyIn(Lower(description), summary_patterns \cup summary_charge_patterns)

\* the path assembles the particulars cell of the row into the description: the
\* positional and the text path always, the column-mapped path when the mapping
\* binds the description column or has to fall back for want of a date
AssemblesParticulars(op) ==
    \/ op # "_extract_transaction_from_row"
    \/ ~IsNone(input.column_mapping.description)
    \/ IsNone(input.column_mapping.date)
    \/ input.row[1] = <<>>

\* C5: a row or line whose assembled description is "Closing Balance", or holds any
\* other keyword of the summary/total/fee set, never becomes a transaction,
\* whatever date and amounts come with it and whichever path assembles it.
C5_SummaryNeverTransaction ==
    \A op \in AssemblyOps :
        Returned(op) =>
            /\ ~IsNone(output[1].val) => ~HasSummaryKeyword(Val(output[1].val).description)
            /\ HasSummaryKeyword(input.row[3]) /\ AssemblesParticulars(op)
                   => IsNone(output[1].val)

\* the column-mapped path has dropped a row that holds a date, a debit, a balance
\* and the particulars CLOSING BALANCE
C5_Witness ==
    /\ Returned("_extract_transaction_from_row")
    /\ input.column_mapping = FullMapping
    /\ input.row[1] = Date0106
    /\ input.row[3] = ClosingBalanceCaps
    /\ input.row[4] # <<>> /\ input.row[6] # <<>>
    /\ IsNone(output[1].val)

(***************************************************************************)
(* ResultAggregator: process_pdf (main.py)                                 *)
(*                                                                         *)
(* A document is [error, pages]: error is None, or Some(message) when      *)
(* pdfplumber.open raises an exception with that message; a page is        *)
(* [tables, text], what extract_tables() and extract_text() return for it  *)
(* (text is empty where extract_text() returns None or '').                *)
(***************************************************************************)
\* the concatenation of a sequence of sequences
RECURSIVE Concat(_)
Concat(seqs) == IF seqs = <<>> THEN <<>> ELSE Head(seqs) \o Concat(Tail(seqs))

\* full_text: the text of every page that has one, each followed by a newline
FullText(pages) ==
    Concat([p \in 1..Len(pages) |->
               IF pages[p].text # <<>> THEN pages[p].text \o <<"\n">> ELSE <<>>])

\* page_transactions: the transactions of the page's tables in order, then those
\* of its text; the text is read whether or not the tables gave any
PageTransactions(page) ==
    Concat([k \in 1..Len(page.tables) |-> _parse_table_universal(page.tables[k])])
    \o (IF page.text # <<>> THEN _extract_from_text_universal(page.text) ELSE <<>>)

\* list.sort with ties put in reverse order
RECURSIVE SortOrderTiesReversed(_)
SortOrderTiesReversed(keys) ==
    IF keys = <<>> THEN <<>>
    ELSE LET n     == Len(keys)
             order == SortOrderTiesReversed(SubSeq(keys, 1, n - 1))
             k     == Cardinality({i \in 1..(n - 1) : keys[i] < keys[n]})
         IN  SubSeq(order, 1, k) \o <<n>> \o SubSeq(order, k + 1, n - 1)

\* list.sort(key=...) on elements of these keys: the positions of the elements in
\* the order the sort puts them in. The sort is stable: each element goes behind
\* the elements of a smaller or equal key that preceded it.
RECURSIVE SortOrder(_)
SortOrder(keys) ==
    IF keys = <<>> THEN <<>>
    ELSE LET n     == Len(keys)
             order == SortOrder(SubSeq(keys, 1, n - 1))
             k     == Cardinality({i \in 1..(n - 1) : keys[i] <= keys[n]})
         IN  SubSeq(order, 1, k) \o <<n>> \o SubSeq(order, k + 1, n - 1)

\* the elements of seq in the given order of positions
Permuted(seq, order) == [i \in 1..Len(seq) |-> seq[order[i]]]

\* transactions.sort(key=lambda x: self._parse_date_for_sort(x.get('date', '')))
SortByDate(txs) ==
    Permuted(txs, SortOrder([i \in 1..Len(txs) |-> _parse_date_for_sort(txs[i].date)]))

\* date_range taken from the two ends of the list
DateRangeOfEnds(txs) ==
    IF txs = <<>> THEN None
    ELSE Some([start |-> txs[1].date, end |-> txs[Len(txs)].date])

\* date_range: None when no transaction has a date, else the first and the last
\* of the dates in list order
DateRange(txs) ==
    LET dates == SelectSeq([i \in 1..Len(txs) |-> txs[i].date], LAMBDA d : d # <<>>)
    IN  IF dates = <<>> THEN None
        ELSE Some([start |-> dates[1], end |-> dates[Len(dates)]])

\* a return value of process_pdf; error_type is None where the dictionary has no
\* such key, detail is the str(e) at the end of the error text
Outcome(success, error, detail, error_type, txs, bank_name, date_range) ==
    [success |-> success, error |-> error, detail |-> detail, error_type |-> error_type,
     transactions |-> txs, bank_name |-> bank_name, transaction_count |-> Len(txs),
     date_range |-> date_range]

\* the return value for an empty list of transactions, with 'Unknown Bank' for
\* every document
NoTransactionsUnknownBank(detected_bank) ==
    Outcome(FALSE, "No valid transactions found in PDF", <<>>, None, <<>>, "Unknown Bank", None)

\* the return value for an empty list of transactions
NoTransactions(detected_bank) ==
    Outcome(FALSE, "No valid transactions found in PDF", <<>>, None, <<>>,
            get_bank_display_name(detected_bank), None)

PasswordWords ==
    { <<"p","a","s","s","w","o","r","d">>, <<"e","n","c","r","y","p","t","e","d">>,
      <<"d","e","c","r","y","p","t">> }

Failed(error, detail, error_type) ==
    Outcome(FALSE, error, detail, error_type, <<>>, "Unknown Bank", None)

\* the except clause with the words looked for in the message as it is raised
ExceptionOutcomeCased(message) ==
    IF AnyIn(message, PasswordWords)
    THEN Failed("PDF is password protected. Please provide the password.", <<>>,
                Some("password_required"))
    ELSE Failed("Error processing PDF: ", message, None)

\* the except clause of process_pdf: the outcome for an exception of that message
ExceptionOutcome(message) ==
    IF AnyIn(Lower(message), PasswordWords)
    THEN Failed("PDF is password protected. Please provide the password.", <<>>,
                Some("password_required"))
    ELSE Failed("Error processing PDF: ", message, None)

\* process_statement: error_type = result.get('error_type', 'processing_error')
job_error_type(outcome) ==
    IF IsNone(outcome.error_type) THEN "processing_error" ELSE Val(outcome.error_type)

(***************************************************************************)
(* Spec: process_pdf on one document, by main.py or by pdf_processor.py    *)
(***************************************************************************)
\* the most pages a document has
MaxPages == 2

\* a table with a header row: its dates are out of order, two rows share a date
\* and the last row is a summary row
StatementTable ==
    << <<<<"T","r","a","n"," ","D","a","t","e">>, <<"C","h","q"," ","N","o">>, <<"P","a","r","t","i","c","u","l","a","r","s">>, <<"D","e","b","i","t">>, <<"C","r","e","d","i","t">>, <<"B","a","l","a","n","c","e">>>>,
       <<<<"0","2","-","0","6","-","2","0","2","5">>, <<>>, <<"U","P","I"," ","p","a","y","m","e","n","t">>, <<"3","0","1",".","0","0">>, <<>>, <<"1","4",",","6","9","9",".","0","0">>>>,
       <<<<"0","1","-","0","6","-","2","0","2","5">>, <<>>, <<"S","a","l","a","r","y"," ","C","r","e","d","i","t">>, <<>>, <<"5",",","0","0","0",".","0","0">>, <<"1","5",",","0","0","0",".","0","0">>>>,
       <<<<"0","1","-","0","6","-","2","0","2","5">>, <<>>, <<"R","e","n","t">>, <<"9","0","0",".","0","0">>, <<>>, <<"1","4",",","1","0","0",".","0","0">>>>,
       <<<<>>, <<>>, <<"C","l","o","s","i","n","g"," ","B","a","l","a","n","c","e">>, <<>>, <<>>, <<"1","4",",","1","0","0",".","0","0">>>> >>

\* a table without a header row, its columns are inferred from the cells
HeaderlessTable ==
    << <<<<"0","3","-","0","6","-","2","0","2","5">>, <<"A","T","M"," ","c","a","s","h"," ","w","i","t","h","d","r","a","w","a","l">>, <<>>, <<"2",",","0","0","0",".","0","0">>, <<>>, <<"1","2",",","1","0","0",".","0","0">>>>,
       <<<<"0","1","-","0","6","-","2","0","2","5">>, <<"R","e","n","t">>, <<>>, <<"9","0","0",".","0","0">>, <<>>, <<"1","4",",","1","0","0",".","0","0">>>> >>

\* a table of charges: none of its rows is a transaction
ChargesTable ==
    << <<<<"S","r","."," ","N","o">>, <<"P","e","r","i","o","d">>, <<"C","h","a","r","g","e"," ","T","y","p","e">>, <<"C","h","a","r","g","e","s","(","R","s",")">>>>,
       <<<<"1">>, <<"0","5","-","2","0","2","5">>, <<"S","M","S"," ","C","h","a","r","g","e","s">>, <<"1","5",".","0","0">>>> >>

\* a table with a header row whose only data row has no date
UndatedTable ==
    << <<<<"T","r","a","n"," ","D","a","t","e">>, <<"C","h","q"," ","N","o">>, <<"P","a","r","t","i","c","u","l","a","r","s">>, <<"D","e","b","i","t">>, <<"C","r","e","d","i","t">>, <<"B","a","l","a","n","c","e">>>>,
       <<<<>>, <<>>, <<"A","T","M"," ","w","i","t","h","d","r","a","w","a","l">>, <<"3","0","1",".","0","0">>, <<>>, <<"1","5",",","0","9","9",".","0","0">>>> >>

\* the text of a page that names the bank and holds no transaction
BankText ==
    <<"H","D","F","C"," ","B","A","N","K"," ","L","T","D","\n","S","t","a","t","e","m","e","n","t"," ","o","f"," ","a","c","c","o","u","n","t">>

\* the text of a page with two transaction lines, the second of a date that does
\* not exist
LinesText ==
    <<"0","2","-","0","6","-","2","0","2","5"," "," ","U","P","I"," ","p","a","y","m","e","n","t"," "," ","-","3","0","1",".","0","0"," "," ","1","4",",","6","9","9",".","0","0","\n","3","1","-","0","2","-","2","0","2","5"," "," ","C","h","e","q","u","e"," ","d","e","p","o","s","i","t"," "," ","+","5","0","0",".","0","0"," "," ","1","5",",","1","9","9",".","0","0">>

\* a page: what extract_tables() and extract_text() return of it, and whether
\* extract_tables() raises instead
Page(tables, text) == [tables |-> tables, text |-> text, raises |-> FALSE]

\* a page of which extract_tables() raises
RaisingPage == [tables |-> <<>>, text |-> <<>>, raises |-> TRUE]

\* the message of the exception
PageErrorMessage == <<"b","a","d"," ","p","a","g","e">>

PagePool ==
    { Page(<<>>, <<>>),
      Page(<<StatementTable>>, BankText),
      Page(<<HeaderlessTable>>, <<>>),
      Page(<<ChargesTable>>, <<>>),
      Page(<<UndatedTable>>, <<>>),
      Page(<<>>, LinesText),
      Page(<<>>, BankText),
      Page(<<StatementTable>>, LinesText),
      RaisingPage }

\* the messages of the exceptions pdfplumber.open raises
ErrorMessages ==
    { <<"I","n","c","o","r","r","e","c","t"," ","P","A","S","S","W","O","R","D">>,
      <<"F","i","l","e"," ","i","s"," ","E","n","c","r","y","p","t","e","d">>,
      <<"f","i","l","e"," ","h","a","s"," ","n","o","t"," ","b","e","e","n"," ","d","e","c","r","y","p","t","e","d">>,
      <<"p","a","s","s","w","o","r","d"," ","r","e","q","u","i","r","e","d">>,
      <<"N","o"," ","/","R","o","o","t"," ","o","b","j","e","c","t","!"," ","-"," ","I","s"," ","t","h","i","s"," ","r","e","a","l","l","y"," ","a"," ","P","D","F","?">>,
      <<>> }

Documents ==
    {[error |-> None, pages |-> pages] : pages \in SeqsUpTo(PagePool, MaxPages)}
    \cup {[error |-> Some(message), pages |-> <<>>] : message \in ErrorMessages}

Init ==
    /\ input = <<>>
    /\ output = <<>>
    /\ pc = "start"
    /\ pdf \in Documents
    /\ transactions = <<>>
    /\ full_text = <<>>
    /\ result = <<>>
    /\ ServiceIdle

\* pdfplumber.open raises: the except clause returns
HandleException ==
    /\ pc = "start"
    /\ ~IsNone(pdf.error)
    /\ result' = <<ExceptionOutcome(Val(pdf.error))>>
    /\ pc' = "done"
    /\ UNCHANGED <<unitVars, serviceVars, pdf, transactions, full_text>>

\* the first loop over the pages
ExtractText ==
    /\ pc = "start"
    /\ IsNone(pdf.error)
    /\ full_text' = FullText(pdf.pages)
    /\ pc' = "pages"
    /\ UNCHANGED <<unitVars, serviceVars, pdf, transactions, result>>

\* the second loop over the pages: extract_tables() of a page raises, nothing in
\* the loop catches it, and the except clause of process_pdf returns
ExtractTablesRaises ==
    /\ pc = "pages"
    /\ \E p \in 1..Len(pdf.pages) : pdf.pages[p].raises
    /\ result' = <<ExceptionOutcome(PageErrorMessage)>>
    /\ pc' = "done"
    /\ UNCHANGED <<unitVars, serviceVars, pdf, transactions, full_text>>

\* the second loop over the pages
ProcessPages ==
    /\ pc = "pages"
    /\ \A p \in 1..Len(pdf.pages) : ~pdf.pages[p].raises
    /\ transactions' = Concat([p \in 1..Len(pdf.pages) |-> PageTransactions(pdf.pages[p])])
    /\ pc' = "extracted"
    /\ UNCHANGED <<unitVars, serviceVars, pdf, full_text, result>>

\* transactions = self._remove_duplicates(transactions)
Deduplicate ==
    /\ pc = "extracted"
    /\ transactions' = _remove_duplicates(transactions)
    /\ pc' = "deduplicated"
    /\ UNCHANGED <<unitVars, serviceVars, pdf, full_text, result>>

\* if not transactions: return the failure
ReturnNoTransactions ==
    /\ pc = "deduplicated"
    /\ transactions = <<>>
    /\ result' = <<NoTransactions(detect_bank(full_text))>>
    /\ pc' = "done"
    /\ UNCHANGED <<unitVars, serviceVars, pdf, transactions, full_text>>

\* the list is sorted in place and returned
ReturnSorted ==
    /\ pc = "deduplicated"
    /\ transactions # <<>>
    /\ transactions' = SortByDate(transactions)
    /\ result' = <<Outcome(TRUE, "", <<>>, None, transactions',
                           get_bank_display_name(detect_bank(full_text)),
                           DateRange(transactions'))>>
    /\ pc' = "done"
    /\ UNCHANGED <<unitVars, serviceVars, pdf, full_text>>

(***************************************************************************)
(* process_pdf of pdf_processor.py. Two functions it calls are not         *)
(* modelled line by line: parse_text_to_table, of which the model keeps    *)
(* that it may or may not make a table of a page's text, and               *)
(* process_transactions, whose result is any short list of transactions.   *)
(***************************************************************************)
\* extract_tables_from_pdf keeps a table of a header and at least one row, unless
\* dropna leaves nothing of the rows (an empty cell of the model is a None cell)
LegacyTableKept(table) ==
    /\ Len(table) > 1
    /\ \E r \in 2..Len(table) : \E c \in 1..Len(table[r]) : table[r][c] # <<>>

\* whether extract_tables_from_pdf returns any table: the text of a page is
\* turned to only when extract_tables() gave the page no table at all
LegacyTablesFound(pages) ==
    IF \E p \in 1..Len(pages) : \E k \in 1..Len(pages[p].tables) :
           LegacyTableKept(pages[p].tables[k])
    THEN {TRUE}
    ELSE IF \E p \in 1..Len(pages) : pages[p].tables = <<>> /\ pages[p].text # <<>>
    THEN {TRUE, FALSE}
    ELSE {FALSE}

\* the pages extract_tables_from_pdf reads: its try statement is around the loop
\* over the pages, so the loop ends at the first page whose extract_tables()
\* raises, and the tables found before that page are returned
LegacyPagesRead(pages) ==
    SubSeq(pages, 1, Cardinality({p \in 1..Len(pages) :
                                     \A q \in 1..p : ~pages[q].raises}))

\* the longest list process_transactions returns
MaxLegacyTxs == 2

\* a transaction as extract_transaction_from_row makes it
LegacyTx(date, description, type, amount) ==
    [date |-> date, description |-> description, type |-> type, amount |-> amount,
     balance |-> None, reference |-> <<>>]

\* the third has a date that normalize_date has left as it was
LegacyTxPool ==
    { LegacyTx(Date0206, <<"R","e","n","t">>, "Debit", 90000),
      LegacyTx(Date0106, SalaryCredit, "Credit", 500000),
      LegacyTx(<<"2","0","2","5",".","0","6",".","0","1">>, SalaryCredit, "Credit", 500000) }

\* a failure of the legacy process_pdf: bank_name is the detected code, or None
LegacyFailed(error, detail, detected_bank) ==
    [success |-> FALSE, error |-> error, detail |-> detail, transactions |-> <<>>,
     bank_name |-> detected_bank]

\* the sort key: datetime.strptime(x['date'], '%d-%m-%Y') if x['date'] else
\* datetime.min; None where strptime raises ValueError
LegacySortKey(date) ==
    IF date = <<>> THEN Some(DateTimeMin)
    ELSE IF IsNone(Strptime(date, LegacyFormats[1])) THEN None
    ELSE Some(DateOrdinal(Val(Strptime(date, LegacyFormats[1]))[1],
                          Val(Strptime(date, LegacyFormats[1]))[2],
                          Val(Strptime(date, LegacyFormats[1]))[3]))

\* str(e) of the ValueError of strptime
StrptimeError(date) ==
    <<"t","i","m","e"," ","d","a","t","a"," ","'">> \o date \o
    <<"'"," ","d","o","e","s"," ","n","o","t"," ","m","a","t","c","h"," ","f","o","r","m","a","t"," ","'","%","d","-","%","m","-","%","Y","'">>

LegacyHandleException ==
    /\ pc = "start"
    /\ ~IsNone(pdf.error)
    /\ result' = <<LegacyFailed("Error processing PDF: ", Val(pdf.error), None)>>
    /\ pc' = "legacy_done"
    /\ UNCHANGED <<unitVars, serviceVars, pdf, transactions, full_text>>

LegacyExtractText ==
    /\ pc = "start"
    /\ IsNone(pdf.error)
    /\ full_text' = FullText(pdf.pages)
    /\ pc' = "legacy_tables"
    /\ UNCHANGED <<unitVars, serviceVars, pdf, transactions, result>>

\* if not tables: return the failure
LegacyReturnNoTables ==
    /\ pc = "legacy_tables"
    /\ FALSE \in LegacyTablesFound(LegacyPagesRead(pdf.pages))
    /\ result' = <<LegacyFailed("No transaction tables found in PDF", <<>>,
                                detect_bank(full_text))>>
    /\ pc' = "legacy_done"
    /\ UNCHANGED <<unitVars, serviceVars, pdf, transactions, full_text>>

\* transactions = self.process_transactions(tables)
LegacyProcessTransactions ==
    /\ pc = "legacy_tables"
    /\ TRUE \in LegacyTablesFound(LegacyPagesRead(pdf.pages))
    /\ transactions' \in SeqsUpTo(LegacyTxPool, MaxLegacyTxs)
    /\ pc' = "legacy_processed"
    /\ UNCHANGED <<unitVars, serviceVars, pdf, full_text, result>>

\* if not transactions: return the failure
LegacyReturnNoTransactions ==
    /\ pc = "legacy_processed"
    /\ transactions = <<>>
    /\ result' = <<LegacyFailed("No valid transactions found", <<>>, detect_bank(full_text))>>
    /\ pc' = "legacy_done"
    /\ UNCHANGED <<unitVars, serviceVars, pdf, transactions, full_text>>

\* the sort raises on the first date it cannot parse: the except clause returns
LegacySortRaises ==
    /\ pc = "legacy_processed"
    /\ \E i \in 1..Len(transactions) :
           /\ IsNone(LegacySortKey(transactions[i].date))
           /\ \A j \in 1..(i - 1) : ~IsNone(LegacySortKey(transactions[j].date))
           /\ result' = <<LegacyFailed("Error processing PDF: ",
                                       StrptimeError(transactions[i].date), None)>>
    /\ pc' = "legacy_done"
    /\ UNCHANGED <<unitVars, serviceVars, pdf, transactions, full_text>>

\* the list is sorted in place and returned
LegacyReturnSorted ==
    /\ pc = "legacy_processed"
    /\ transactions # <<>>
    /\ \A i \in 1..Len(transactions) : ~IsNone(LegacySortKey(transactions[i].date))
    /\ transactions' =
           Permuted(transactions,
                    SortOrder([i \in 1..Len(transactions) |->
                                  Val(LegacySortKey(transactions[i].date))]))
    /\ result' = <<Outcome(TRUE, "", <<>>, None, transactions',
                           get_bank_display_name(detect_bank(full_text)),
                           DateRange(transactions'))>>
    /\ pc' = "legacy_done"
    /\ UNCHANGED <<unitVars, serviceVars, pdf, full_text>>

Next ==
    \/ HandleException
    \/ ExtractText
    \/ ExtractTablesRaises
    \/ ProcessPages
    \/ Deduplicate
    \/ ReturnNoTransactions
    \/ ReturnSorted
    \/ LegacyHandleException
    \/ LegacyExtractText
    \/ LegacyReturnNoTables
    \/ LegacyProcessTransactions
    \/ LegacyReturnNoTransactions
    \/ LegacySortRaises
    \/ LegacyReturnSorted

Spec == Init /\ [][Next]_vars

\* the sort key of a transaction of main.py
SortKey(t) == _parse_date_for_sort(t.date)

\* after is before put in ascending order of the key with ties left in the order
\* they had: the keys ascend, and for each key the transactions of that key are
\* the same list before and after
IsStableSort(before, after) ==
    /\ Len(after) = Len(before)
    /\ \A i \in 1..(Len(after) - 1) : SortKey(after[i]) <= SortKey(after[i + 1])
    /\ \A i \in 1..Len(before) :
           SelectSeq(after, LAMBDA t : SortKey(t) = SortKey(before[i]))
               = SelectSeq(before, LAMBDA t : SortKey(t) = SortKey(before[i]))

\* C2: in every successful outcome of main.py the transactions are in ascending
\* order of their parsed date, and transactions sharing a date keep the relative
\* order they had in the deduplicated list before the sort.
C2_SortedStable ==
    [][pc = "deduplicated" /\ pc' = "done" /\ result'[1].success
           => /\ IsStableSort(transactions, result'[1].transactions)
              /\ transactions' = result'[1].transactions]_vars

\* the statement table alone has been processed: the payment of 02-06 that came
\* first is last, and the salary and the rent of 01-06 are in the order of the table
C2_Witness ==
    /\ pc = "done"
    /\ pdf.pages = <<Page(<<StatementTable>>, BankText)>>
    /\ result[1].success
    /\ [i \in 1..3 |-> result[1].transactions[i].description]
           = <<SalaryCredit, <<"R","e","n","t">>, <<"U","P","I"," ","p","a","y","m","e","n","t">>>>
    /\ [i \in 1..3 |-> result[1].transactions[i].date] = <<Date0106, Date0106, Date0206>>

\* C6: when the deduplicated list of transactions is empty, the outcome has
\* success = false, the no-transactions error, an empty list of transactions, and
\* the bank identified from the text of the document (its display name in main.py,
\* its code in pdf_processor.py).
C6_NoTransactionsOutcome ==
    [][/\ pc = "deduplicated" /\ transactions = <<>>
           => /\ pc' = "done"
              /\ ~result'[1].success
              /\ result'[1].error = "No valid transactions found in PDF"
              /\ result'[1].transactions = <<>>
              /\ result'[1].bank_name = get_bank_display_name(detect_bank(FullText(pdf.pages)))
       /\ pc = "legacy_processed" /\ transactions = <<>>
           => /\ pc' = "legacy_done"
              /\ ~result'[1].success
              /\ result'[1].error = "No valid transactions found"
              /\ result'[1].transactions = <<>>
              /\ result'[1].bank_name = detect_bank(FullText(pdf.pages))]_vars

\* a document whose only page names HDFC Bank and holds no transaction has
\* failed, and the outcome names the bank
C6_Witness ==
    /\ pc = "done"
    /\ pdf.pages = <<Page(<<>>, BankText)>>
    /\ ~result[1].success
    /\ result[1].error = "No valid transactions found in PDF"
    /\ result[1].transactions = <<>>
    /\ result[1].bank_name = "HDFC Bank"

\* the document has pages, and none of them has a table or text
NoTablesNoText ==
    /\ IsNone(pdf.error)
    /\ pdf.pages # <<>>
    /\ \A p \in 1..Len(pdf.pages) : pdf.pages[p].tables = <<>> /\ pdf.pages[p].text = <<>>

\* the errors of an outcome that found tables or text and no transaction in them
NoTransactionsErrors == {"No valid transactions found in PDF", "No valid transactions found"}

\* C7: a document whose every page yields no tables and no text ends with
\* success = false, no transactions, and an error that is distinct from the
\* no-transactions error.
C7_EmptyDocumentDistinctError ==
    pc \in {"done", "legacy_done"} /\ NoTablesNoText
        => /\ ~result[1].success
           /\ result[1].transactions = <<>>
           /\ result[1].error \notin NoTransactionsErrors

\* pdf_processor.py does tell the two apart
LegacyEmptyDocumentDistinctError ==
    pc = "legacy_done" /\ NoTablesNoText
        => /\ ~result[1].success
           /\ result[1].transactions = <<>>
           /\ result[1].error = "No transaction tables found in PDF"

\* one of the three words occurs in the message in some letter case
MentionsPassword(message) ==
    \E w \in PasswordWords : \E i \in 1..Len(message) :
        \A j \in 1..Len(w) : i + j - 1 <= Len(message) /\ LowerChar(message[i + j - 1]) = w[j]

\* C8: a failure to open the document whose message holds "password", "encrypted"
\* or "decrypt" in any letter case gives an outcome with success = false that is
\* classified password_required, in the outcome and in the job; a failure whose
\* message holds none of them gives the generic failure with the message.
C8_PasswordClassification ==
    pc = "done" /\ ~IsNone(pdf.error)
        => /\ ~result[1].success
           /\ result[1].transactions = <<>>
           /\ IF MentionsPassword(Val(pdf.error))
              THEN /\ result[1].error_type = Some("password_required")
                   /\ job_error_type(result[1]) = "password_required"
              ELSE /\ result[1].error_type = None
                   /\ result[1].error = "Error processing PDF: "
                   /\ result[1].detail = Val(pdf.error)
                   /\ job_error_type(result[1]) = "processing_error"

\* the message "Incorrect PASSWORD" has been classified
C8_Witness ==
    /\ pc = "done"
    /\ pdf.error = Some(<<"I","n","c","o","r","r","e","c","t"," ","P","A","S","S","W","O","R","D">>)
    /\ result[1].error_type = Some("password_required")

(***************************************************************************)
(* SpecTable: _parse_table_universal on one table                          *)
(***************************************************************************)
\* the header row of the statement layout
StatementHeader ==
    <<<<"T","r","a","n"," ","D","a","t","e">>, <<"C","h","q"," ","N","o">>, <<"P","a","r","t","i","c","u","l","a","r","s">>, <<"D","e","b","i","t">>, <<"C","r","e","d","i","t">>, <<"B","a","l","a","n","c","e">>, <<"I","n","i","t",".","B","r">>>>

\* the same layout with a value date in the second column
TwoDateHeader ==
    <<<<"T","r","a","n"," ","D","a","t","e">>, <<"V","a","l","u","e"," ","D","a","t","e">>, <<"P","a","r","t","i","c","u","l","a","r","s">>, <<"D","e","b","i","t">>, <<"C","r","e","d","i","t">>, <<"B","a","l","a","n","c","e">>, <<"I","n","i","t",".","B","r">>>>

\* a credit row with a balance
SalaryRow == <<<<"0","1","-","0","6","-","2","0","2","5">>, <<>>, <<"S","a","l","a","r","y"," ","C","r","e","d","i","t">>, <<>>, <<"5","0","0","0","0",".","0","0">>, <<"1","5","0","0","0","0",".","0","0">>, <<>>>>

\* the data rows tables are made of: a credit with a balance; a debit with a
\* reference, a short date and padded cells; a row without particulars; a row
\* without a date; a row with neither; a summary row; a row without amounts; a row
\* whose debit cell holds a dash
TableRowPool ==
    { SalaryRow,
      <<<<"2","/","6","/","2","5">>, <<"U","P","I","-","1","2","3","4","5">>, <<" ","U","P","I"," ","p","a","y","m","e","n","t"," ">>, <<"3","0","1",".","0","0">>, <<>>, <<" ","1","5",",","0","0","0",".","0","0">>, <<>>>>,
      <<<<"0","1","-","0","6","-","2","0","2","5">>, <<>>, <<>>, <<"3","0","1",".","0","0">>, <<>>, <<>>, <<>>>>,
      <<<<>>, <<>>, <<"A","T","M"," ","w","i","t","h","d","r","a","w","a","l">>, <<"3","0","1",".","0","0">>, <<>>, <<>>, <<>>>>,
      <<<<>>, <<"U","P","I","-","1","2","3","4","5">>, <<>>, <<"3","0","1",".","0","0">>, <<>>, <<"1","5",",","0","0","0",".","0","0">>, <<>>>>,
      <<<<"0","1","-","0","6","-","2","0","2","5">>, <<>>, <<"C","l","o","s","i","n","g"," ","B","a","l","a","n","c","e">>, <<>>, <<>>, <<"1","5",",","0","0","0",".","0","0">>, <<>>>>,
      <<<<"0","1","-","0","6","-","2","0","2","5">>, <<>>, <<"S","a","l","a","r","y"," ","C","r","e","d","i","t">>, <<>>, <<>>, <<>>, <<>>>>,
      <<<<"0","2","-","0","6","-","2","0","2","5">>, <<>>, <<"C","a","s","h"," ","d","e","p","o","s","i","t">>, <<"-">>, <<"1",",","2","5","0",".","5","0">>, <<>>, <<>>>> }

MaxDataRows == 2

\* a header, or none, above one to MaxDataRows data rows
Tables ==
    {header \o data : header \in {<<StatementHeader>>, <<TwoDateHeader>>, <<>>},
                      data \in SeqsUpTo(TableRowPool, MaxDataRows) \ {<<>>}}

InitTable ==
    /\ input \in [table : Tables]
    /\ output = <<>>
    /\ PipeIdle
    /\ ServiceIdle

ParseTableUniversal ==
    Return("_parse_table_universal", _parse_table_universal(input.table))

NextTable == ParseTableUniversal

SpecTable == InitTable /\ [][NextTable]_vars

\* the cells of a data row under the statement header, trimmed: date, reference,
\* particulars, debit, credit, balance
BoundCell(row, role) ==
    Strip(row[CASE role = "date" -> 1 [] role = "reference" -> 2
                [] role = "description" -> 3 [] role = "debit" -> 4
                [] role = "credit" -> 5 [] role = "balance" -> 6])

\* the row has what a transaction needs: a date or particulars, particulars that
\* are no summary, and an amount in one of the three amount cells
IsTransactionRow(row) ==
    /\ BoundCell(row, "date") # <<>> \/ BoundCell(row, "description") # <<>>
    /\ ~_is_summary_row(BoundCell(row, "description"))
    /\ \E role \in {"debit", "credit", "balance"} : _is_amount(BoundCell(row, role))

\* the amount of a bound cell: absent when the cell is empty or is no amount
BoundAmount(cell) == IF _is_amount(cell) THEN Some(_clean_amount(cell)) ELSE None

\* the amount of a bound cell: absent only when the cell is empty
BoundAmountOfNonEmpty(cell) == IF cell = <<>> THEN None ELSE Some(_clean_amount(cell))

Succeeded == pc \in {"done", "legacy_done"} /\ result[1].success

\* C12: in every successful outcome the date range runs from the first to the last
\* of the non-empty dates of the sorted list, and is absent when no transaction has
\* a date; when the first and the last transaction have a date, these are the two
\* ends of the range.
C12_DateRangeOfDatedTransactions ==
    Succeeded
        => LET txs   == result[1].transactions
               dated == SelectSeq(txs, LAMBDA t : t.date # <<>>)
           IN  /\ txs = transactions
               /\ dated = <<>> <=> IsNone(result[1].date_range)
               /\ dated # <<>> =>
                      /\ Val(result[1].date_range).start = dated[1].date
                      /\ Val(result[1].date_range).end = dated[Len(dated)].date
               /\ txs[1].date # <<>> /\ txs[Len(txs)].date # <<>> =>
                      /\ Val(result[1].date_range).start = txs[1].date
                      /\ Val(result[1].date_range).end = txs[Len(txs)].date

\* the withdrawal without a date is first in the sorted list, and the range starts
\* at the date of the transaction after it
C12_Witness ==
    /\ pc = "done"
    /\ pdf.pages = <<Page(<<StatementTable>>, BankText), Page(<<UndatedTable>>, <<>>)>>
    /\ result[1].success
    /\ Len(result[1].transactions) = 4
    /\ result[1].transactions[1].date = <<>>
    /\ result[1].transactions[2].date = Date0106
    /\ result[1].date_range = Some([start |-> Date0106, end |-> Date0206])

\* C12 as stated: the range is the date of the first and of the last transaction.
C12_DateRangeOfEndTransactions ==
    Succeeded
        => /\ ~IsNone(result[1].date_range)
           /\ Val(result[1].date_range).start = result[1].transactions[1].date
           /\ Val(result[1].date_range).end
                  = result[1].transactions[Len(result[1].transactions)].date

(***************************************************************************)
(* The service around the engine: process_statement, the job store and the *)
(* result store, and the three requests on a job (main.py 1026-1219,       *)
(* server.py 47-251).  An upload is handled in steps: the job is recorded  *)
(* and the handler waits for the bytes of the file; the file is saved; the *)
(* job is set to 'processing'; process_pdf runs and the job is completed   *)
(* or set to 'error'.  main.py does all of it inside the request and       *)
(* answers the upload at the end, server.py answers once the file is saved *)
(* and processes in a background task.  On one event loop another request  *)
(* is served only while a handler awaits (await file.read()) or before the *)
(* background task starts; the model serves requests between all steps,    *)
(* the update to 'processing' included, which is every interleaving of the *)
(* program and more.  process_pdf is represented by the outcomes it can    *)
(* return.                                                                 *)
(***************************************************************************)
MaxJobs == 2

\* the ids uuid4 hands out, and an id no job was ever given
JobIds == 1..MaxJobs

UnknownJobId == 0

\* 50 * 1024 * 1024
MaxUploadBytes == 50 * 1024 * 1024

\* a file process_statement is called with
Upload(filename, size) == [filename |-> filename, size |-> size]

\* the uploads: a PDF of the largest size allowed, its name in capitals; a PDF one
\* byte larger; a file whose name has .pdf before its extension; a file named pdf
Uploads ==
    { Upload(<<"S","T","A","T","E","M","E","N","T",".","P","D","F">>, MaxUploadBytes),
      Upload(<<"s","t","a","t","e","m","e","n","t",".","p","d","f">>, MaxUploadBytes + 1),
      Upload(<<"s","t","a","t","e","m","e","n","t",".","p","d","f",".","t","x","t">>, 1024),
      Upload(<<"p","d","f">>, 1024) }

\* the validation of process_statement without its size limit
UploadErrorUnlimited(file) ==
    IF ~EndsWith(Lower(file.filename), <<".","p","d","f">>)
    THEN Some([status_code |-> 400, detail |-> "Only PDF files are supported"])
    ELSE None

\* the HTTPException the validation of process_statement raises for the file,
\* None when it raises none
UploadError(file) ==
    IF ~EndsWith(Lower(file.filename), <<".","p","d","f">>)
    THEN Some([status_code |-> 400, detail |-> "Only PDF files are supported"])
    ELSE IF file.size > MaxUploadBytes
    THEN Some([status_code |-> 400, detail |-> "File size too large. Maximum 50MB allowed"])
    ELSE None

\* the job process_statement records; the keys a job dict does not have are None
NewJob(file) ==
    [status |-> "uploading", progress |-> 10, file_name |-> file.filename,
     file_size |-> file.size, bank_name |-> None, transaction_count |-> None,
     date_range |-> None, error_message |-> None, error_type |-> None]

\* how far the handling of an upload is, and whether its temporary file exists
Task(step, temp_file) == [step |-> step, temp_file |-> temp_file]

\* a request with its answer: the handler, the file or the job id it was called
\* with, and the status code with the detail of an HTTPException or the body of
\* the response
Response(request, argument, status_code, detail, body) ==
    [request |-> request, argument |-> argument, status_code |-> status_code,
     detail |-> detail, body |-> body]

\* the transactions of a successful outcome of main.py
ServiceTransactions ==
    << Tx(Date0106, <<>>, SalaryCredit, None, Some(500000), Some(1500000)),
       Tx(Date0206, UpiRef, <<"U","P","I"," ","p","a","y","m","e","n","t">>, Some(30100), None, Some(1469900)) >>

\* the transactions of a successful outcome of pdf_processor.py
LegacyServiceTransactions == << LegacyTx(Date0106, SalaryCredit, "Credit", 500000) >>

\* what process_pdf of main.py returns for the uploaded file
MainOutcomes ==
    { Outcome(TRUE, "", <<>>, None, ServiceTransactions, "HDFC Bank",
              DateRange(ServiceTransactions)),
      NoTransactions(Some("hdfc")),
      ExceptionOutcome(<<"I","n","c","o","r","r","e","c","t"," ","P","A","S","S","W","O","R","D">>),
      ExceptionOutcome(<<"N","o"," ","/","R","o","o","t"," ","o","b","j","e","c","t","!"," ","-"," ","I","s"," ","t","h","i","s"," ","r","e","a","l","l","y"," ","a"," ","P","D","F","?">>) }

\* what process_pdf of pdf_processor.py returns for the uploaded file
LegacyOutcomes ==
    { Outcome(TRUE, "", <<>>, None, LegacyServiceTransactions, "HDFC Bank",
              DateRange(LegacyServiceTransactions)),
      LegacyFailed("No transaction tables found in PDF", <<>>, Some("hdfc")),
      LegacyFailed("No valid transactions found", <<>>, None),
      LegacyFailed("Error processing PDF: ", <<"I","n","c","o","r","r","e","c","t"," ","P","A","S","S","W","O","R","D">>, None) }

InitService ==
    /\ input = <<>>
    /\ output = <<>>
    /\ PipeIdle
    /\ backend \in {"main", "server"}
    /\ jobs_storage = [job_id \in JobIds |-> None]
    /\ results_storage = [job_id \in JobIds |-> None]
    /\ task = [job_id \in JobIds |-> Task("none", FALSE)]
    /\ response = <<>>

\* process_statement, validation: the upload is refused
RejectUpload ==
    \E file \in Uploads :
        /\ ~IsNone(UploadError(file))
        /\ response' = <<Response("process_statement", file,
                                  Val(UploadError(file)).status_code,
                                  Val(UploadError(file)).detail, <<>>)>>
        /\ UNCHANGED <<unitVars, pipeVars, backend, jobs_storage, results_storage, task>>

\* process_statement up to the await of file.read(): the job is recorded under a
\* fresh id (the ids are handed out in order) and the temporary file is opened
CreateJob ==
    \E file \in Uploads : \E job_id \in JobIds :
        /\ IsNone(UploadError(file))
        /\ IsNone(jobs_storage[job_id])
        /\ \A earlier \in 1..(job_id - 1) : ~IsNone(jobs_storage[earlier])
        /\ jobs_storage' = [jobs_storage EXCEPT ![job_id] = Some(NewJob(file))]
        /\ task' = [task EXCEPT ![job_id] = Task("reading", TRUE)]
        /\ UNCHANGED <<unitVars, pipeVars, backend, results_storage, response>>

\* the job after a successful outcome
Completed(job, outcome) ==
    [job EXCEPT !.status = "completed", !.progress = 100,
                !.bank_name = Some(outcome.bank_name),
                !.transaction_count = Some(Len(outcome.transactions)),
                !.date_range = outcome.date_range]

\* the job after a failed outcome with the progress of a finished job
ErroredAtFullProgress(job, outcome, error_type) ==
    [job EXCEPT !.status = "error", !.progress = 100,
                !.error_message = Some([error |-> outcome.error, detail |-> outcome.detail]),
                !.error_type = error_type]

\* the job after a failed outcome; only main.py records an error_type
Errored(job, outcome, error_type) ==
    [job EXCEPT !.status = "error",
                !.error_message = Some([error |-> outcome.error, detail |-> outcome.detail]),
                !.error_type = error_type]

\* the job after an exception in the handler
Crashed(job) ==
    [job EXCEPT !.status = "error",
                !.error_message = Some([error |-> "Processing error: ", detail |-> <<>>])]

\* the entry of the result store for a successful outcome
ProcessingResult(job_id, outcome) ==
    [job_id |-> job_id, transactions |-> outcome.transactions,
     bank_name |-> outcome.bank_name, total_transactions |-> Len(outcome.transactions),
     date_range |-> outcome.date_range]

\* the file a job was recorded for
FileOf(job) == Upload(job.file_name, job.file_size)

\* the answer to an accepted upload
UploadAccepted(job_id) ==
    Response("process_statement", FileOf(Val(jobs_storage[job_id])), 200, "",
             [job_id |-> job_id, status |-> "processing",
              message |-> "PDF uploaded successfully, processing started"])

\* the job store alone is updated after process_pdf has returned: a handler that
\* marks the job without writing the result entry
StoresAfterJobOnly(job_id, outcome, error_type) ==
    /\ jobs_storage' =
            [jobs_storage EXCEPT ![job_id] =
                Some(IF outcome.success THEN Completed(Val(@), outcome)
                                        ELSE Errored(Val(@), outcome, error_type))]
    /\ UNCHANGED results_storage

\* the stores after process_pdf has returned the outcome for the job
StoresAfter(job_id, outcome, error_type) ==
    IF outcome.success
    THEN /\ results_storage' =
                [results_storage EXCEPT ![job_id] = Some(ProcessingResult(job_id, outcome))]
         /\ jobs_storage' =
                [jobs_storage EXCEPT ![job_id] = Some(Completed(Val(@), outcome))]
    ELSE /\ jobs_storage' =
                [jobs_storage EXCEPT ![job_id] = Some(Errored(Val(@), outcome, error_type))]
         /\ UNCHANGED results_storage

\* the job is set to 'processing'
SetProcessing(job_id) ==
    jobs_storage' = [jobs_storage EXCEPT
                        ![job_id] = Some([Val(@) EXCEPT !.status = "processing",
                                                        !.progress = 20])]

\* main.py process_statement: the file is saved, the job is set to 'processing'
MainStartProcessing ==
    \E job_id \in JobIds :
        /\ backend = "main"
        /\ task[job_id].step = "reading"
        /\ SetProcessing(job_id)
        /\ task' = [task EXCEPT ![job_id] = Task("processing", TRUE)]
        /\ UNCHANGED <<unitVars, pipeVars, backend, results_storage, response>>

\* main.py process_statement: reading or writing the file raises; the except clause
\* sets the job to 'error' and answers 500, and the temporary file is left
MainSaveFails ==
    \E job_id \in JobIds :
        /\ backend = "main"
        /\ task[job_id].step = "reading"
        /\ jobs_storage' = [jobs_storage EXCEPT ![job_id] = Some(Crashed(Val(@)))]
        /\ task' = [task EXCEPT ![job_id] = Task("none", TRUE)]
        /\ response' = <<Response("process_statement", FileOf(Val(jobs_storage[job_id])), 500,
                                  "Error processing file: ", <<>>)>>
        /\ UNCHANGED <<unitVars, pipeVars, backend, results_storage>>

\* main.py process_statement: process_pdf returns, the stores are updated, the
\* temporary file is removed and the upload is answered
MainFinishProcessing ==
    \E job_id \in JobIds : \E outcome \in MainOutcomes :
        /\ backend = "main"
        /\ task[job_id].step = "processing"
        /\ StoresAfter(job_id, outcome, Some(job_error_type(outcome)))
        /\ task' = [task EXCEPT ![job_id] = Task("none", FALSE)]
        /\ response' = <<UploadAccepted(job_id)>>
        /\ UNCHANGED <<unitVars, pipeVars, backend>>

\* server.py process_statement: the file is saved, the background task is added
\* and the upload is answered
ServerAnswerUpload ==
    \E job_id \in JobIds :
        /\ backend = "server"
        /\ task[job_id].step = "reading"
        /\ task' = [task EXCEPT ![job_id] = Task("queued", TRUE)]
        /\ response' = <<UploadAccepted(job_id)>>
        /\ UNCHANGED <<unitVars, pipeVars, backend, jobs_storage, results_storage>>

\* server.py process_statement: reading or writing the file raises; the except
\* clause answers 500 and leaves the job and the temporary file as they are
ServerSaveFails ==
    \E job_id \in JobIds :
        /\ backend = "server"
        /\ task[job_id].step = "reading"
        /\ task' = [task EXCEPT ![job_id] = Task("none", TRUE)]
        /\ response' = <<Response("process_statement", FileOf(Val(jobs_storage[job_id])), 500,
                                  "Error processing file: ", <<>>)>>
        /\ UNCHANGED <<unitVars, pipeVars, backend, jobs_storage, results_storage>>

\* server.py process_pdf_background: the job is set to 'processing'
ServerStartProcessing ==
    \E job_id \in JobIds :
        /\ backend = "server"
        /\ task[job_id].step = "queued"
        /\ SetProcessing(job_id)
        /\ task' = [task EXCEPT ![job_id] = Task("processing", TRUE)]
        /\ UNCHANGED <<unitVars, pipeVars, backend, results_storage, response>>

\* server.py process_pdf_background: process_pdf returns, the stores are updated
\* and the temporary file is removed
ServerFinishProcessing ==
    \E job_id \in JobIds : \E outcome \in LegacyOutcomes :
        /\ backend = "server"
        /\ task[job_id].step = "processing"
        /\ StoresAfter(job_id, outcome, None)
        /\ task' = [task EXCEPT ![job_id] = Task("none", FALSE)]
        /\ UNCHANGED <<unitVars, pipeVars, backend, response>>

\* server.py process_pdf_background: process_pdf or the conversion of its
\* transactions raises; the except clause sets the job to 'error' and the finally
\* clause removes the temporary file
ServerProcessingRaises ==
    \E job_id \in JobIds :
        /\ backend = "server"
        /\ task[job_id].step = "processing"
        /\ jobs_storage' = [jobs_storage EXCEPT ![job_id] = Some(Crashed(Val(@)))]
        /\ task' = [task EXCEPT ![job_id] = Task("none", FALSE)]
        /\ UNCHANGED <<unitVars, pipeVars, backend, results_storage, response>>

\* job_id in processing_jobs (server.py); jobs_storage.get(job_id) is a job (main.py)
Known(job_id) == job_id \in JobIds /\ ~IsNone(jobs_storage[job_id])

\* the answer to a request for a job with another error
NotCompletedYet(request, job_id) ==
    Response(request, job_id, 400, "Job not completed yet", <<>>)

NotFound(request, job_id) == Response(request, job_id, 404, "Job not found", <<>>)

\* job.status != "completed", taking a job that failed for a completed one
NotCompletedNorFailed(job) == job.status \notin {"completed", "error"}

\* job.status != "completed"
NotCompleted(job) == job.status # "completed"

\* the message get_process_status gives for a status
StatusMessage(status) ==
    CASE status = "completed" -> "Processing completed successfully"
      [] status = "error"     -> "Processing failed"
      [] status = "uploading" -> "File uploaded, starting processing"
      [] OTHER                -> "Processing in progress"

\* the body of the answer of get_process_status
StatusBody(job_id, job) ==
    [job_id |-> job_id, status |-> job.status, progress |-> job.progress,
     bank_name |-> job.bank_name, transaction_count |-> job.transaction_count,
     date_range |-> job.date_range, message |-> StatusMessage(job.status),
     error_message |-> job.error_message, error_type |-> job.error_type]

\* the body of the answer of get_transactions
TransactionsBody(processing_result) ==
    [transactions |-> processing_result.transactions,
     bank_name |-> processing_result.bank_name,
     total_transactions |-> processing_result.total_transactions,
     date_range |-> processing_result.date_range]

\* the body of the answer of download_csv: one row for each transaction
CsvBody(processing_result) ==
    [media_type |-> "text/csv", bank_name |-> processing_result.bank_name,
     rows |-> processing_result.transactions]

\* the checks get_transactions and download_csv start with, then the body
ResultAnswer(request, job_id, Body(_)) ==
    IF ~Known(job_id) THEN NotFound(request, job_id)
    ELSE IF NotCompleted(Val(jobs_storage[job_id]))
    THEN Response(request, job_id, 400, "Job not completed yet", <<>>)
    ELSE IF IsNone(results_storage[job_id])
    THEN Response(request, job_id, 404, "Results not found", <<>>)
    ELSE Response(request, job_id, 200, "", Body(Val(results_storage[job_id])))

\* a request reads the stores and changes none of them
Answer(answer) ==
    /\ backend \in {"main", "server"}
    /\ response' = <<answer>>
    /\ UNCHANGED <<unitVars, pipeVars, backend, jobs_storage, results_storage, task>>

\* GET /api/process-status/{job_id}
GetProcessStatus ==
    \E job_id \in JobIds \cup {UnknownJobId} :
        Answer(IF ~Known(job_id) THEN NotFound("get_process_status", job_id)
               ELSE Response("get_process_status", job_id, 200, "",
                             StatusBody(job_id, Val(jobs_storage[job_id]))))

\* GET /api/transactions/{job_id}
GetTransactions ==
    \E job_id \in JobIds \cup {UnknownJobId} :
        Answer(ResultAnswer("get_transactions", job_id, TransactionsBody))

\* GET /api/download-csv/{job_id}
DownloadCsv ==
    \E job_id \in JobIds \cup {UnknownJobId} :
        Answer(ResultAnswer("download_csv", job_id, CsvBody))

NextService ==
    \/ RejectUpload \/ CreateJob
    \/ MainStartProcessing \/ MainSaveFails \/ MainFinishProcessing
    \/ ServerAnswerUpload \/ ServerSaveFails
    \/ ServerStartProcessing \/ ServerFinishProcessing \/ ServerProcessingRaises
    \/ GetProcessStatus \/ GetTransactions \/ DownloadCsv

SpecService == InitService /\ [][NextService]_vars

\* the step is one of the three requests on a job
JobRequests == {"get_process_status", "get_transactions", "download_csv"}

IsJobRequest(resp) == resp # <<>> /\ resp[1].request \in JobRequests

\* C13: in every reachable state of the job store, a request for the status, the
\* transactions or the CSV download of a job id that is not in the job store is
\* answered with 404 and changes neither store.
C13_UnknownJobIs404 ==
    [][\A job_id \in JobIds \cup {UnknownJobId} :
           /\ response' # response
           /\ IsJobRequest(response')
           /\ response'[1].argument = job_id
           /\ ~Known(job_id)
           => /\ response'[1].status_code = 404
              /\ response'[1].detail = "Job not found"
              /\ jobs_storage' = jobs_storage
              /\ results_storage' = results_storage]_vars

\* the transactions of an id that was never given to a job have been asked for
\* while another job is completed, and the answer is 404
C13_Witness ==
    /\ IsJobRequest(response)
    /\ response[1].request = "get_transactions"
    /\ response[1].argument = UnknownJobId
    /\ response[1].status_code = 404
    /\ \E job_id \in JobIds : Known(job_id) /\ Val(jobs_storage[job_id]).status = "completed"

\* the two requests for the result of a job
ResultRequests == {"get_transactions", "download_csv"}

\* the transactions an answer carries
AnsweredTransactions(resp) ==
    IF resp.request = "download_csv" THEN resp.body.rows ELSE resp.body.transactions

\* C14: a request for the transactions or the CSV download of a known job is
\* answered with 400 "Job not completed yet" whenever the status of the job is not
\* 'completed', and with the transactions of the job only when it is 'completed',
\* at whatever point of the processing of the job the request comes.
C14_ResultsOnlyWhenCompleted ==
    [][\A job_id \in JobIds :
           /\ response' # response
           /\ response'[1].request \in ResultRequests
           /\ response'[1].argument = job_id
           /\ Known(job_id)
           => IF Val(jobs_storage[job_id]).status # "completed"
              THEN /\ response'[1].status_code = 400
                   /\ response'[1].detail = "Job not completed yet"
                   /\ response'[1].body = <<>>
              ELSE /\ response'[1].status_code = 200
                   /\ ~IsNone(results_storage[job_id])
                   /\ AnsweredTransactions(response'[1])
                          = Val(results_storage[job_id]).transactions
                   /\ Len(AnsweredTransactions(response'[1]))
                          = Val(Val(jobs_storage[job_id]).transaction_count)]_vars

\* the CSV of a job has been asked for and refused while the upload handler of the
\* job awaits the bytes of the file, another job being completed
C14_Witness ==
    /\ response # <<>>
    /\ response[1].request = "download_csv"
    /\ response[1].status_code = 400
    /\ response[1].detail = "Job not completed yet"
    /\ Val(jobs_storage[response[1].argument]).status = "uploading"
    /\ task[response[1].argument].step = "reading"
    /\ \E job_id \in JobIds :
           /\ Known(job_id)
           /\ Val(jobs_storage[job_id]).status = "completed"

\* the name ends in .pdf in some letter case
IsPdfName(filename) ==
    /\ Len(filename) >= 4
    /\ filename[Len(filename) - 3] = "."
    /\ filename[Len(filename) - 2] \in {"p", "P"}
    /\ filename[Len(filename) - 1] \in {"d", "D"}
    /\ filename[Len(filename)] \in {"f", "F"}

\* C15: an upload whose file name does not end in '.pdf' (in any letter case) or
\* whose size exceeds 50 MB is rejected with status 400 before any job is created:
\* the job store and the result store are unchanged by the request, and no job in
\* the store is of such a file.
C15_InvalidUploadRejected ==
    [][/\ /\ response' # response
          /\ response'[1].request = "process_statement"
          /\ \/ ~IsPdfName(response'[1].argument.filename)
             \/ response'[1].argument.size > 50 * 1024 * 1024
          => /\ response'[1].status_code = 400
             /\ jobs_storage' = jobs_storage
             /\ results_storage' = results_storage
       /\ \A job_id \in JobIds :
              ~IsNone(jobs_storage'[job_id]) =>
                  /\ IsPdfName(Val(jobs_storage'[job_id]).file_name)
                  /\ Val(jobs_storage'[job_id]).file_size <= 50 * 1024 * 1024]_vars

\* a PDF one byte over the limit has been refused while a job of the largest file
\* allowed, named in capitals, is in the store
C15_Witness ==
    /\ response # <<>>
    /\ response[1].request = "process_statement"
    /\ response[1].argument.size = 50 * 1024 * 1024 + 1
    /\ response[1].status_code = 400
    /\ response[1].detail = "File size too large. Maximum 50MB allowed"
    /\ \E job_id \in JobIds :
           /\ Known(job_id)
           /\ Val(jobs_storage[job_id]).file_size = 50 * 1024 * 1024

\* extract_tables() raises of some page of a document that opens
SomePageRaises == IsNone(pdf.error) /\ \E p \in 1..Len(pdf.pages) : pdf.pages[p].raises

\* the transactions of the outcome hold one of the key of each transaction of the page
InOutcome(page_transactions) ==
    \A i \in 1..Len(page_transactions) :
        \E j \in 1..Len(result[1].transactions) :
            TxKey(result[1].transactions[j]) = TxKey(page_transactions[i])

\* C16: when the extraction of the tables of one page fails, that page is skipped
\* and the transactions of the other pages are in the outcome; the failure of one
\* page is not a failure of the document.
C16_FailingPageSkipped ==
    /\ pc = "done" /\ SomePageRaises
           => /\ result[1].error # "Error processing PDF: "
              /\ \A p \in 1..Len(pdf.pages) :
                     ~pdf.pages[p].raises => InOutcome(PageTransactions(pdf.pages[p]))
    /\ pc = "legacy_done" /\ SomePageRaises
           => /\ result[1].error # "Error processing PDF: "
              /\ (\E p \in 1..Len(pdf.pages) : \E k \in 1..Len(pdf.pages[p].tables) :
                      LegacyTableKept(pdf.pages[p].tables[k]))
                     => result[1].error # "No transaction tables found in PDF"

\* what main.py does: the exception of the page ends process_pdf in its except
\* clause, with no transaction of any page
FailingPageFailsDocument ==
    pc = "done" /\ SomePageRaises => result[1] = ExceptionOutcome(PageErrorMessage)

\* what pdf_processor.py does: the pages from the failing one on are not read
LegacyFailingPageEndsExtraction ==
    /\ pc = "legacy_done"
    /\ SomePageRaises
    /\ ~ \E p \in 1..Len(LegacyPagesRead(pdf.pages)) : pdf.pages[p].tables # <<>> \/ pdf.pages[p].text # <<>>
    => result[1].error = "No transaction tables found in PDF"

\* the transactions of a page when its text is read only if its tables gave none
TableThenTextTransactions(page) ==
    IF Concat([k \in 1..Len(page.tables) |-> _parse_table_universal(page.tables[k])]) # <<>>
    THEN Concat([k \in 1..Len(page.tables) |-> _parse_table_universal(page.tables[k])])
    ELSE IF page.text # <<>> THEN _extract_from_text_universal(page.text) ELSE <<>>

\* C17: the text lines of a page are turned into transactions only when the tables
\* of that page produced no transaction.
C17_TextOnlyWithoutTableTransactions ==
    pc = "extracted"
        => transactions
               = Concat([p \in 1..Len(pdf.pages) |-> TableThenTextTransactions(pdf.pages[p])])

\* what main.py does: the text lines of a page with the statement table are in the
\* list next to the rows of the table
TextReadAfterTableTransactions ==
    /\ pc = "extracted"
    /\ pdf.pages = <<Page(<<StatementTable>>, LinesText)>>
    => /\ _parse_table_universal(StatementTable) # <<>>
       /\ _extract_from_text_universal(LinesText) # <<>>
       /\ transactions = _parse_table_universal(StatementTable)
                             \o _extract_from_text_universal(LinesText)

\* a row under the statement header with a date and a debit and no particulars
NoParticularsRow ==
    << Date0106, <<>>, <<>>, <<"3","0","1",".","0","0">>, <<>>, <<>>, <<>> >>

\* C18: every transaction has a non-empty description; a description that is
\* empty when the transaction is assembled is set to "Transaction".
C18_DescriptionNeverEmpty ==
    Returned("_parse_table_universal")
        => \A i \in 1..Len(output[1].val) : output[1].val[i].description # <<>>

\* what _extract_transaction_from_row does under a header: the row without
\* particulars is a transaction with the empty description
MappedRowKeepsEmptyDescription ==
    Returned("_parse_table_universal") /\ input.table = <<StatementHeader, NoParticularsRow>>
        => output[1].val = <<Tx(Date0106, <<>>, <<>>, Some(30100), None, None)>>

\* an amount of the key with an absent amount taken as zero
OrZero(amount) == IF IsNone(amount) THEN 0 ELSE Val(amount)

\* the key of a transaction with its absent amounts taken as zero
ZeroKey(t) == <<t.date, t.description, OrZero(t.debit), OrZero(t.credit), OrZero(t.balance)>>

\* C19: the key of the Deduplicator takes an absent amount for zero, so of two
\* transactions that differ only in an amount absent in one and 0.0 in the other
\* the second is dropped.
C19_AbsentAmountIsZeroInKey ==
    Returned("_remove_duplicates")
        => \A i, j \in 1..Len(output[1].val) :
               ZeroKey(output[1].val[i]) = ZeroKey(output[1].val[j]) => i = j

\* what _remove_duplicates does: the salary credit without a debit and the one
\* with debit 0.0 are both kept
AbsentAndZeroAmountBothKept ==
    /\ Returned("_remove_duplicates")
    /\ input = << Tx(Date0106, <<>>, SalaryCredit, None, Some(5000000), Some(15000000)),
                  Tx(Date0106, <<>>, SalaryCredit, Some(0), Some(5000000), Some(15000000)) >>
    => output[1].val = input

\* the cells of the sample rows the first loop of _infer_columns_from_data looks
\* at, as <<row, 0-based column>>, and the order it takes them in
InferredCells(table) ==
    UNION {{<<r, i>> : i \in {k \in 0..(Len(table[r]) - 1) : Strip(table[r][k + 1]) # <<>>}} :
              r \in {q \in 1..Len(table) : Len(table[q]) >= 3}}

Before(c, d) == c[1] < d[1] \/ (c[1] = d[1] /\ c[2] < d[2])

DateCell(table, c) ==
    _is_date(Strip(table[c[1]][c[2] + 1])) \/ _looks_like_date(Strip(table[c[1]][c[2] + 1]))

\* C20: a role is bound once: the mapping holds, for each role, the first column
\* that matches it, under the header strategy and under the inference strategy
\* (of which the date role, the first of the chain, is stated).
C20_FirstMatchingColumnBound ==
    Returned("_parse_table_universal")
        => /\ HeaderRowIdx(input.table) # -1
                  => ColumnMapping(input.table)
                         = HeaderMappingFirst(input.table[HeaderRowIdx(input.table) + 1])
           /\ HeaderRowIdx(input.table) = -1
                  => \A c \in InferredCells(input.table) :
                         /\ DateCell(input.table, c)
                         /\ \A d \in InferredCells(input.table) :
                                Before(d, c) => ~DateCell(input.table, d)
                         => ColumnMapping(input.table).date = Some(c[2])

\* what the header strategy does: under the header with Tran Date and Value Date
\* the date is bound to the second of the two columns, and the transaction of the
\* salary row has the content of that column, nothing, for its date
HeaderBindsLastMatchingColumn ==
    Returned("_parse_table_universal") /\ input.table = <<TwoDateHeader, SalaryRow>>
        => /\ HeaderMappingFirst(TwoDateHeader).date = Some(0)
           /\ ColumnMapping(input.table).date = Some(1)
           /\ Len(output[1].val) = 1
           /\ output[1].val[1].date = <<>>

\* what the inference strategy does: the date is bound to the column of the first
\* date cell
InferenceBindsFirstDate ==
    Returned("_parse_table_universal") /\ HeaderRowIdx(input.table) = -1
        => \A c \in InferredCells(input.table) :
               /\ DateCell(input.table, c)
               /\ \A d \in InferredCells(input.table) :
                      Before(d, c) => ~DateCell(input.table, d)
               => ColumnMapping(input.table).date = Some(c[2])

\* C21: a row whose joined lower-cased cells hold at least 2 of the charge-header
\* keywords never becomes a transaction, on the column-mapped path and on the
\* positional path.
C21_ChargeHeaderRowNeverTransaction ==
    /\ Returned("_extract_transaction_from_row") \/ Returned("_parse_table_row")
    /\ _is_charge_table_header(input.row)
    => IsNone(output[1].val)

\* what _parse_table_row does: the row with the keywords is skipped
PositionalPathSkipsChargeHeader ==
    Returned("_parse_table_row") /\ _is_charge_table_header(input.row)
        => IsNone(output[1].val)

\* what _extract_transaction_from_row does: under a mapping that gives the row a
\* date, the row with the keywords in its reference cell is a transaction
MappedPathKeepsChargeHeader ==
    /\ Returned("_extract_transaction_from_row")
    /\ input.row = ChargeKeywordRow
    /\ input.column_mapping # NoMapping
    => /\ _is_charge_table_header(input.row)
       /\ output[1].val = Some(Tx(Date0106, <<"s","r",".","n","o"," ","p","e","r","i","o","d">>,
                                  IF IsNone(input.column_mapping.description) THEN <<>>
                                  ELSE <<"A","T","M"," ","w","i","t","h","d","r","a","w","a","l">>,
                                  Some(30100), None, None))

(***************************************************************************)
(* SpecInfer: _infer_columns_from_data on one table without a header       *)
(***************************************************************************)
\* a row with a date and amounts in columns 1, 2 and 6
AmountsBesideDateRow == <<<<"0","1","-","0","6","-","2","0","2","5">>, <<"3","0","1",".","0","0">>, <<"5",",","0","0","0",".","0","0">>, <<"C","a","s","h"," ","d","e","p","o","s","i","t"," ","a","t"," ","b","r","a","n","c","h">>, <<>>, <<>>, <<"1","5",",","0","0","0",".","0","0">>>>

\* a row of three amounts in columns 0, 1 and 2
ThreeAmountsRow == <<<<"1","0","0",".","0","0">>, <<"2","0","0",".","0","0">>, <<"3","0","0",".","0","0">>>>

\* a debit row that starts with a serial number
SerialNumberRow == <<<<"7">>, <<"A","T","M"," ","w","i","t","h","d","r","a","w","a","l">>, <<>>, <<"3","0","1",".","0","0">>, <<>>, <<>>, <<>>>>

\* a row with a date, particulars and a debit in column 3
DebitOnlyRow == <<<<"0","1","-","0","6","-","2","0","2","5">>, <<>>, <<"A","T","M"," ","w","i","t","h","d","r","a","w","a","l">>, <<"3","0","1",".","0","0">>, <<>>, <<>>, <<>>>>

\* the rows the tables are made of: a credit with a balance; a debit alone; a debit
\* with a reference, a short date and padded cells; amounts beside the date; three
\* amounts; a row of two cells; a row with its date in the second column and the
\* three amounts in columns 3, 4 and 5; a debit after a serial number; a row with
\* an amount in the last column
InferRowPool ==
    { SalaryRow,
      DebitOnlyRow,
      <<<<"2","/","6","/","2","5">>, <<"U","P","I","-","1","2","3","4","5">>, <<" ","U","P","I"," ","p","a","y","m","e","n","t"," ">>, <<"3","0","1",".","0","0">>, <<>>, <<" ","1","5",",","0","0","0",".","0","0">>, <<>>>>,
      AmountsBesideDateRow,
      ThreeAmountsRow,
      <<<<"O","p","e","n","i","n","g">>, <<"0","1","-","0","6","-","2","0","2","5">>>>,
      <<<<>>, <<"0","2","-","0","6","-","2","0","2","5">>, <<"N","E","F","T"," ","t","r","a","n","s","f","e","r"," ","t","o"," ","s","a","v","i","n","g","s">>, <<"9","0","0",".","0","0">>, <<"1",",","2","5","0",".","5","0">>, <<"1","4",",","1","0","0",".","0","0">>>>,
      SerialNumberRow,
      <<<<"0","1","-","0","6","-","2","0","2","5">>, <<>>, <<"A","T","M"," ","w","i","t","h","d","r","a","w","a","l">>, <<>>, <<>>, <<>>, <<" ","2","5",".","0","0">>>> }

\* the most rows of a table
MaxInferRows == 2

InferTables == SeqsUpTo(InferRowPool, MaxInferRows)

InitInfer ==
    /\ input \in [table : InferTables]
    /\ output = <<>>
    /\ PipeIdle
    /\ ServiceIdle

InferColumnsFromData ==
    Return("_infer_columns_from_data", _infer_columns_from_data(input.table))

NextInfer == InferColumnsFromData

SpecInfer == InitInfer /\ [][NextInfer]_vars

\* the columns other than 3, 4 and 5 in which a cell that is not a date holds an amount
OtherAmountColumns(table) ==
    {c[2] : c \in {d \in InferredCells(table) :
                      /\ d[2] \notin {3, 4, 5}
                      /\ ~DateCell(table, d)
                      /\ _is_amount(Strip(table[d[1]][d[2] + 1]))}}

\* C22: in content inference an amount cell outside columns 3, 4 and 5 binds the
\* first unbound role of balance, debit, credit: a table with amount cells in three
\* such columns ends with balance, debit and credit all bound.
C22_AmountRolesFilledInOrder ==
    Returned("_infer_columns_from_data") /\ Cardinality(OtherAmountColumns(input.table)) >= 3
        => /\ ~IsNone(output[1].val.balance)
           /\ ~IsNone(output[1].val.debit)
           /\ ~IsNone(output[1].val.credit)

\* what _infer_columns_from_data does: debit is bound to column 3 or not at all,
\* credit to column 4 or not at all, and an amount cell elsewhere binds balance
\* when balance is unbound and nothing otherwise
DebitAndCreditByPositionOnly ==
    Returned("_infer_columns_from_data")
        => /\ output[1].val.debit \in {None, Some(3)}
           /\ output[1].val.credit \in {None, Some(4)}
           /\ input.table = <<ThreeAmountsRow>>
                  => output[1].val = [NoMapping EXCEPT !.balance = Some(0)]

\* the fields of the mapping that are bound
Bound(column_mapping) == {field \in DOMAIN column_mapping : ~IsNone(column_mapping[field])}

\* C30: in the mapping content inference produces no two roles are bound to the
\* same column.
C30_InferredRolesInDistinctColumns ==
    Returned("_infer_columns_from_data")
        => \A f, g \in Bound(output[1].val) :
               output[1].val[f] = output[1].val[g] => f = g

\* what _infer_columns_from_data does on two rows with a date in column 0 and a
\* debit in column 3: the second date cell binds the reference to column 0 and the
\* second debit cell binds the balance to column 3
SecondRowRebindsTakenColumns ==
    Returned("_infer_columns_from_data") /\ input.table = <<DebitOnlyRow, DebitOnlyRow>>
        => output[1].val = [date |-> Some(0), debit |-> Some(3), credit |-> None,
                            balance |-> Some(3), description |-> Some(2),
                            reference |-> Some(0)]

\* what _infer_columns_from_data does keep apart: an amount column and the
\* description column
DescriptionColumnNotTaken ==
    Returned("_infer_columns_from_data")
        => \A f \in Bound(output[1].val) \ {"description"} :
               output[1].val[f] # output[1].val.description

\* credit_keywords of _parse_text_line
credit_keywords ==
    { <<"c","r","e","d","i","t">>, <<"d","e","p","o","s","i","t">>, <<"s","a","l","a","r","y">>,
      <<"i","n","t","e","r","e","s","t">>, <<"r","e","f","u","n","d">>,
      <<"c","a","s","h","b","a","c","k">> }

\* the amount tokens of the line a row prints to, in the order of the line
AmountTokens(row) == NonEmpty(SubSeq(row, 4, 6))

\* the token is written with a sign
Signed(token) == token[1] \in {"-", "+"}

\* C23: on the text path the amount tokens are classified in the order of the
\* line: a token with a leading '-' or '+', or one on a line whose description
\* holds a credit keyword, is the credit; otherwise the first amount token is the
\* debit and the next the balance.
C23_TextAmountsBySignKeywordOrder ==
    /\ Returned("_parse_transaction_line_universal")
    /\ ~IsNone(output[1].val)
    /\ AmountTokens(input.row) # <<>>
    => IF \/ Signed(AmountTokens(input.row)[1])
          \/ AnyIn(Lower(Val(output[1].val).description), credit_keywords)
       THEN Val(output[1].val).credit = Some(_clean_amount(AmountTokens(input.row)[1]))
       ELSE /\ Val(output[1].val).debit = Some(_clean_amount(AmountTokens(input.row)[1]))
            /\ Len(AmountTokens(input.row)) >= 2
                   => Val(output[1].val).balance
                          = Some(_clean_amount(AmountTokens(input.row)[2]))

\* what _parse_transaction_line_universal does: a token with '-' is the debit and
\* one with '+' the credit when that field is free; any other amount token is the
\* balance when the balance is free, else the debit when the debit is free, else
\* dropped; the description plays no part
TextAmountsBySignThenBalanceFirst ==
    /\ Returned("_parse_transaction_line_universal")
    /\ ~IsNone(output[1].val)
    /\ AmountTokens(input.row) # <<>>
    => IF Signed(AmountTokens(input.row)[1])
       THEN /\ input.row = SignedDebitRow
            /\ Val(output[1].val).debit = Some(30100)
            /\ Val(output[1].val).credit = None
            /\ Val(output[1].val).balance = Some(1469900)
       ELSE /\ Val(output[1].val).balance = Some(_clean_amount(AmountTokens(input.row)[1]))
            /\ Val(output[1].val).credit = None
            /\ Val(output[1].val).debit
                   = IF Len(AmountTokens(input.row)) >= 2
                     THEN Some(_clean_amount(AmountTokens(input.row)[2])) ELSE None

\* the date of a transaction of main.py has no parsed value: it is empty, or is a
\* text normalization left as it was and the sort cannot parse
Unparseable(t) == SortKey(t) = DateTimeMin

\* the sort of pdf_processor.py cannot parse the date of the transaction
LegacyUnparseable(t) == t.date # <<>> /\ IsNone(LegacySortKey(t.date))

\* C24: a transaction whose date cannot be parsed never makes the processing of
\* the document fail: the outcome is successful with all the transactions, and the
\* transaction is before every transaction with a parseable date.
C24_UnparseableDateNeverFails ==
    [][/\ pc = "deduplicated" /\ transactions # <<>>
           => /\ result'[1].success
              /\ Len(result'[1].transactions) = Len(transactions)
              /\ \A i, j \in 1..Len(result'[1].transactions) :
                     /\ Unparseable(result'[1].transactions[j])
                     /\ ~Unparseable(result'[1].transactions[i])
                     => j < i
       /\ pc = "legacy_processed" /\ transactions # <<>>
           => /\ result'[1].success
              /\ Len(result'[1].transactions) = Len(transactions)]_vars

\* what main.py does: C24 holds of it
MainUnparseableDateSortsFirst ==
    [][pc = "deduplicated" /\ transactions # <<>>
           => /\ result'[1].success
              /\ Len(result'[1].transactions) = Len(transactions)
              /\ \A i, j \in 1..Len(result'[1].transactions) :
                     /\ Unparseable(result'[1].transactions[j])
                     /\ ~Unparseable(result'[1].transactions[i])
                     => j < i]_vars

\* the text lines of main.py have given a transaction with the date 31-02-2025,
\* which is first in the successful outcome
MainUnparseableDateSorted ==
    /\ pc = "done"
    /\ result[1].success
    /\ Len(result[1].transactions) >= 2
    /\ result[1].transactions[1].date = <<"3","1","-","0","2","-","2","0","2","5">>
    /\ ~Unparseable(result[1].transactions[2])

\* what pdf_processor.py does: strptime raises on the date, and the except clause
\* of process_pdf returns a failure without transactions
LegacyUnparseableDateFails ==
    [][/\ pc = "legacy_processed"
       /\ \E i \in 1..Len(transactions) : LegacyUnparseable(transactions[i])
       => /\ ~result'[1].success
          /\ result'[1].error = "Error processing PDF: "
          /\ result'[1].transactions = <<>>]_vars

\* cells of the pool that hold no number once the markers are removed
NonNumericCells ==
    { <<"a","b","c">>, <<"(","a","b","c",")">>, <<"-">>, <<"1",".","2",".","3">>,
      <<"(",")">> }

\* C25: amount normalization never raises and never returns a negative number,
\* in both engines: it returns the absolute value of the number, and 0.0 for text
\* that holds no number.
C25_AmountNormalizationTotal ==
    /\ Returned("_clean_amount") =>
          /\ output[1].val >= 0
          /\ input \in NonNumericCells => output[1].val = 0
    /\ Returned("clean_amount") =>
          /\ ~output[1].val.raised
          /\ output[1].val.val >= 0
          /\ input \in NonNumericCells => output[1].val.val = 0

\* what main.py does: C25 holds of _clean_amount
MainCleanAmountTotal ==
    Returned("_clean_amount") =>
        /\ output[1].val >= 0
        /\ input \in NonNumericCells => output[1].val = 0

\* what pdf_processor.py does: float() of a parenthesized text is outside the try
\* statement and is negated, and the float of a text with a minus sign is returned
\* as it is
LegacyCleanAmountRaisesOrNegative ==
    Returned("clean_amount") =>
        /\ input = <<"(","a","b","c",")">> => output[1].val.raised
        /\ input = <<"(","7",")">> => output[1].val = [raised |-> FALSE, val |-> 0 - 700]
        /\ input = <<"-","3","0","1",".","0","0">>
               => output[1].val = [raised |-> FALSE, val |-> 0 - 30100]
        /\ input \in {<<"a","b","c">>, <<"-">>, <<"1",".","2",".","3">>, <<"(",")">>}
               => output[1].val = [raised |-> FALSE, val |-> 0]

\* the job has status 'completed'
IsCompleted(job_id) == Known(job_id) /\ Val(jobs_storage[job_id]).status = "completed"

\* C26: in every reachable state, under every interleaving of uploads, processing
\* steps and requests, a job whose status is 'completed' has an entry in the
\* result store and its transaction_count is the number of transactions of that
\* entry, so no request for a completed job is answered 404 'Results not found'.
C26_CompletedJobHasResult ==
    /\ \A job_id \in JobIds :
          IsCompleted(job_id) =>
             /\ ~IsNone(results_storage[job_id])
             /\ Val(jobs_storage[job_id]).transaction_count =
                   Some(Len(Val(results_storage[job_id]).transactions))
             /\ Val(results_storage[job_id]).total_transactions =
                   Len(Val(results_storage[job_id]).transactions)
    /\ \A i \in 1..Len(response) :
          response[i].request \in ResultRequests
             => response[i].detail # "Results not found"

\* a request for the transactions of a completed job was answered while another
\* upload was being read
C26_Witness ==
    \E job_id \in JobIds : \E other \in JobIds :
        /\ IsCompleted(job_id)
        /\ ~IsNone(results_storage[job_id])
        /\ Len(Val(results_storage[job_id]).transactions) > 0
        /\ task[other].step = "reading"
        /\ response # <<>>
        /\ response[1].request \in ResultRequests
        /\ response[1].argument = job_id
        /\ response[1].status_code = 200

\* the place of a status in the order uploading, processing, terminal
StatusRank(status) ==
    CASE status = "uploading" -> 0
      [] status = "processing" -> 1
      [] status \in {"completed", "error"} -> 2

IsTerminal(status) == status \in {"completed", "error"}

\* the job stays in the job store and its status does not move backward; a
\* terminal status is kept
StatusMovesForward(job_id) ==
    Known(job_id) =>
        /\ ~IsNone(jobs_storage'[job_id])
        /\ StatusRank(Val(jobs_storage'[job_id]).status)
              >= StatusRank(Val(jobs_storage[job_id]).status)
        /\ IsTerminal(Val(jobs_storage[job_id]).status)
              => Val(jobs_storage'[job_id]).status = Val(jobs_storage[job_id]).status

\* the progress of every job is 100 exactly when its status is 'completed'
FullProgressIffCompleted ==
    \A job_id \in JobIds :
        Known(job_id) =>
            (Val(jobs_storage[job_id]).progress = 100
                <=> Val(jobs_storage[job_id]).status = "completed")

\* C27: the status of a job never moves backward in the order uploading,
\* processing, terminal (completed or error); once it is 'completed' or 'error'
\* it never changes again; and the progress of a job is 100 exactly when its
\* status is 'completed'.
C27_StatusMonotone ==
    /\ []FullProgressIffCompleted
    /\ [][\A job_id \in JobIds : StatusMovesForward(job_id)]_vars

\* one job failed while its file was saved and kept the progress of an upload,
\* another went through 'processing' and completed
C27_Witness ==
    \E job_id \in JobIds : \E other \in JobIds :
        /\ Known(job_id) /\ Known(other)
        /\ Val(jobs_storage[job_id]).status = "error"
        /\ Val(jobs_storage[job_id]).progress = 10
        /\ Val(jobs_storage[other]).status = "completed"
        /\ Val(jobs_storage[other]).progress = 100

\* a step of a handler or of a background task that is under way
HandlerStep ==
    \/ MainStartProcessing \/ MainSaveFails \/ MainFinishProcessing
    \/ ServerAnswerUpload \/ ServerSaveFails
    \/ ServerStartProcessing \/ ServerFinishProcessing \/ ServerProcessingRaises

\* the event loop resumes a handler that awaits file.read() and runs a background
\* task that was added, and every call of process_pdf returns or raises: a
\* handler step that stays possible is taken. No request has to arrive.
SpecServiceFair == SpecService /\ WF_vars(HandlerStep)

\* the job has reached status 'completed' or 'error'
Terminated(job_id) == Known(job_id) /\ IsTerminal(Val(jobs_storage[job_id]).status)

\* C28: every job that has been put in the job store eventually reaches status
\* 'completed' or 'error', also when saving the uploaded file or scheduling the
\* processing fails after the job was recorded.
C28_EveryJobEventuallyTerminal ==
    \A job_id \in JobIds : Known(job_id) ~> Terminated(job_id)

\* every job of main.py eventually reaches 'completed' or 'error'
MainJobEventuallyTerminal ==
    \A job_id \in JobIds : (backend = "main" /\ Known(job_id)) ~> Terminated(job_id)

\* every job of server.py whose background task was added eventually reaches
\* 'completed' or 'error'
ServerQueuedJobEventuallyTerminal ==
    \A job_id \in JobIds : (task[job_id].step = "queued") ~> Terminated(job_id)

\* the handler of the job has ended with the temporary file left behind: saving
\* the file failed
SaveFailed(job_id) == Known(job_id) /\ task[job_id] = Task("none", TRUE)

\* a job of server.py whose file could not be saved has status 'uploading', and
\* keeps it for ever
ServerSaveFailureStaysUploading ==
    /\ [](\A job_id \in JobIds :
            (backend = "server" /\ SaveFailed(job_id))
                => Val(jobs_storage[job_id]).status = "uploading")
    /\ [][\A job_id \in JobIds :
            (backend = "server" /\ SaveFailed(job_id)) => SaveFailed(job_id)']_vars

\* C29: once the processing of a job has finished, with success, with a failed
\* outcome or with an exception, the temporary file that held the uploaded PDF
\* no longer exists.
C29_TempFileRemovedWhenFinished ==
    \A job_id \in JobIds : Terminated(job_id) => ~task[job_id].temp_file

\* server.py: the finally clause of the background task removes the file
\* whatever the end of the processing
ServerTempFileRemovedWhenFinished ==
    backend = "server" =>
        \A job_id \in JobIds : Terminated(job_id) => ~task[job_id].temp_file

\* main.py: the job ended with an outcome of process_pdf, successful or failed
EndedWithOutcome(job) == job.status = "completed" \/ ~IsNone(job.error_type)

\* main.py: the file is removed after an outcome of process_pdf, and is left
\* when the except clause of the handler ended the job
MainTempFileRemovedAfterOutcomeOnly ==
    backend = "main" =>
        \A job_id \in JobIds :
            Terminated(job_id) =>
                (task[job_id].temp_file <=> ~EndedWithOutcome(Val(jobs_storage[job_id])))

\* a job of main.py ended by the except clause, with its file left, beside a job
\* that ended with a failed outcome and whose file was removed
MainExceptionLeftTempFile ==
    \E job_id \in JobIds : \E other \in JobIds :
        /\ backend = "main"
        /\ Terminated(job_id) /\ task[job_id].temp_file
        /\ Terminated(other) /\ ~task[other].temp_file
        /\ Val(jobs_storage[other]).status = "error"

====
